---- MODULE Spec2Model ----
(***************************************************************************)
(* Verification model of the hooks of mindful-study-hub:                   *)
(* useEndOfDaySummary (src/src/hooks/useEndOfDaySummary.ts),               *)
(* useWellbeingStats and useStudySession                                   *)
(* (src/src/hooks/useWellbeingStats.ts).                                   *)
(*                                                                         *)
(*   SpecMsg     the pure classifier generateMessage, applied to feature   *)
(*               tuples drawn from bounded sets;                           *)
(*   Spec        the stateful trigger wrapper of the hook: mount effect,   *)
(*               30-minute timer, realtime completion events with their    *)
(*               500 ms debounce timers, the awaits inside each trigger    *)
(*               run, dismissal, the clock and the backend rows the        *)
(*               triggers read;                                            *)
(*   SpecManual  Spec with a caller of showSummaryNow;                     *)
(*   SpecScores  the score arithmetic of fetchStats applied to aggregates  *)
(*               drawn from bounded sets;                                  *)
(*   SpecStats   one run of fetchStats over bounded datasets, each of its  *)
(*               four queries returning rows or an error;                  *)
(*   SpecSession the useStudySession instances of AppSidebar and           *)
(*               EmotionAnalyzer with handleLogout;                        *)
(*   SpecSchedule the ScheduleGenerator page and the generate-schedule     *)
(*               function (src/supabase/functions/generate-schedule);      *)
(*   SpecCamera  the camera of the Wellbeing page                          *)
(*               (src/src/pages/Wellbeing.tsx);                            *)
(*   SpecAnalysis handleAnalyze of the Wellbeing page and its timeout;     *)
(*   SpecPuzzle  NumberPuzzle: the shuffle and the moves;                  *)
(*   SpecBurnout fetchStats over logs on the range of the stress slider;   *)
(*   SpecDay     the session counts of fetchDaySummary;                    *)
(*   SpecTracker StudyTracker (src/src/pages/StudyTracker.tsx);            *)
(*   SpecBreath  BreathingExercise and the timers of runCycle.             *)
(*                                                                         *)
(* Arithmetic is exact: hours are counted in units of 1/HourScale hour,    *)
(* focus and stress averages in units of 1/LevelScale, and every           *)
(* comparison of the code against a decimal literal is cross-multiplied.   *)
(***************************************************************************)
EXTENDS Integers, Sequences, FiniteSets, TLC

(***************************************************************************)
(* Bounds of the model.                                                    *)
(***************************************************************************)
\* time values are counted in units of 1/HourScale hour
HourScale == 4
\* studyHours ranges over 0..MaxStudy units, goalHours over 0..MaxGoal units
MaxStudy == 4
MaxGoal == MaxStudy + 1
\* completedSessions and totalSessions range over 0..MaxSessions
MaxSessions == 4
\* emotionCount ranges over 0..MaxEmotions
MaxEmotions == 1
\* averages are counted in units of 1/LevelScale
LevelScale == 2

(***************************************************************************)
(* Program constants of generateMessage.                                   *)
(***************************************************************************)
\* isStressed = avgStress >= 7
STRESS_THRESHOLD == 7
\* isFocused = avgFocus >= 6
FOCUS_THRESHOLD == 6

States ==
  {"motivated", "tired_but_consistent", "stressed", "proud", "discouraged",
   "balanced", "recovering", "strong_start"}

Emotions == {"null", "happy"}

\* the averages next to a threshold: the nearest below, the threshold, the
\* nearest above
Around(t) == (t * LevelScale - 1)..(t * LevelScale + 1)

\* the values each field of the feature tuple is drawn from
FieldValues ==
  [studyHours |-> 0..MaxStudy,
   goalHours |-> 0..MaxGoal,
   completedSessions |-> 0..MaxSessions,
   totalSessions |-> 0..MaxSessions,
   dominantEmotion |-> Emotions,
   avgFocus |-> Around(FOCUS_THRESHOLD),
   avgStress |-> Around(STRESS_THRESHOLD),
   emotionCount |-> 0..MaxEmotions]

Features ==
  [studyHours : FieldValues.studyHours,
   goalHours : FieldValues.goalHours,
   completedSessions : FieldValues.completedSessions,
   totalSessions : FieldValues.totalSessions,
   dominantEmotion : FieldValues.dominantEmotion,
   avgFocus : FieldValues.avgFocus,
   avgStress : FieldValues.avgStress,
   emotionCount : FieldValues.emotionCount]

(***************************************************************************)
(* generateMessage, line by line.                                          *)
(***************************************************************************)
\* completionRate >= num/den, with completionRate = completed/total when
\* total > 0 and 0 otherwise
RateAtLeast(d, num, den) ==
  IF d.totalSessions > 0
    THEN d.completedSessions * den >= num * d.totalSessions
    ELSE 0 >= num

RateBelow(d, num, den) == ~RateAtLeast(d, num, den)

\* goalHours > 0 ? studyHours >= goalHours * 0.8 : studyHours > 0
goalReached(d) ==
  IF d.goalHours > 0
    THEN 10 * d.studyHours >= 8 * d.goalHours
    ELSE d.studyHours > 0

\* mutant: the stress threshold is exclusive
isStressed_Strict(d) == d.avgStress > STRESS_THRESHOLD * LevelScale

isStressed(d) == d.avgStress >= STRESS_THRESHOLD * LevelScale

isFocused(d) == d.avgFocus >= FOCUS_THRESHOLD * LevelScale

hasEmotionData(d) == d.emotionCount > 0

\* Number.prototype.toFixed(1): the value in tenths, rounded half up
toFixed1(h) == (20 * h + HourScale) \div (2 * HourScale)

\* mutant: the discouraged branch is tested before the recovering branch
classifyState_DiscouragedFirst(d) ==
  IF isStressed(d) /\ RateBelow(d, 5, 10) THEN "stressed"
  ELSE IF RateAtLeast(d, 8, 10) /\ goalReached(d) THEN "proud"
  ELSE IF RateAtLeast(d, 6, 10) /\ isFocused(d) THEN "motivated"
  ELSE IF d.studyHours > 0 /\ RateBelow(d, 5, 10) /\ ~isStressed(d)
    THEN "tired_but_consistent"
  ELSE IF RateBelow(d, 3, 10) /\ d.goalHours > 0 THEN "discouraged"
  ELSE IF d.studyHours = 0 /\ hasEmotionData(d) THEN "recovering"
  ELSE IF d.studyHours > 0 /\ ~hasEmotionData(d) THEN "strong_start"
  ELSE "balanced"

\* mutant: the stressed branch does not look at the completion rate
classifyState_StressAlone(d) ==
  IF isStressed(d) THEN "stressed"
  ELSE IF RateAtLeast(d, 8, 10) /\ goalReached(d) THEN "proud"
  ELSE IF RateAtLeast(d, 6, 10) /\ isFocused(d) THEN "motivated"
  ELSE IF d.studyHours > 0 /\ RateBelow(d, 5, 10) /\ ~isStressed(d)
    THEN "tired_but_consistent"
  ELSE IF d.studyHours = 0 /\ hasEmotionData(d) THEN "recovering"
  ELSE IF RateBelow(d, 3, 10) /\ d.goalHours > 0 THEN "discouraged"
  ELSE IF d.studyHours > 0 /\ ~hasEmotionData(d) THEN "strong_start"
  ELSE "balanced"

\* mutant: the tired_but_consistent branch does not require study time
classifyState_TiredWithoutStudy(d) ==
  IF isStressed(d) /\ RateBelow(d, 5, 10) THEN "stressed"
  ELSE IF RateAtLeast(d, 8, 10) /\ goalReached(d) THEN "proud"
  ELSE IF RateAtLeast(d, 6, 10) /\ isFocused(d) THEN "motivated"
  ELSE IF RateBelow(d, 5, 10) /\ ~isStressed(d) THEN "tired_but_consistent"
  ELSE IF d.studyHours = 0 /\ hasEmotionData(d) THEN "recovering"
  ELSE IF RateBelow(d, 3, 10) /\ d.goalHours > 0 THEN "discouraged"
  ELSE IF d.studyHours > 0 /\ ~hasEmotionData(d) THEN "strong_start"
  ELSE "balanced"

\* the if / else-if chain choosing the state
classifyState(d) ==
  IF isStressed(d) /\ RateBelow(d, 5, 10) THEN "stressed"
  ELSE IF RateAtLeast(d, 8, 10) /\ goalReached(d) THEN "proud"
  ELSE IF RateAtLeast(d, 6, 10) /\ isFocused(d) THEN "motivated"
  ELSE IF d.studyHours > 0 /\ RateBelow(d, 5, 10) /\ ~isStressed(d)
    THEN "tired_but_consistent"
  ELSE IF d.studyHours = 0 /\ hasEmotionData(d) THEN "recovering"
  ELSE IF RateBelow(d, 3, 10) /\ d.goalHours > 0 THEN "discouraged"
  ELSE IF d.studyHours > 0 /\ ~hasEmotionData(d) THEN "strong_start"
  ELSE "balanced"

\* the message template of a state with the values interpolated into it
messageOf(s, d) ==
  CASE s = "stressed" ->
         <<"Today felt heavy",
           IF d.studyHours > 0 THEN <<"hours", toFixed1(d.studyHours)>>
                               ELSE <<"rest">> >>
    [] s = "proud" ->
         <<"What an amazing day", d.completedSessions, d.totalSessions,
           toFixed1(d.studyHours)>>
    [] s = "motivated" ->
         <<"Great focus today", toFixed1(d.studyHours),
           IF d.completedSessions > 0 THEN <<"completed", d.completedSessions>>
                                      ELSE <<>> >>
    [] s = "tired_but_consistent" ->
         <<"You showed up", toFixed1(d.studyHours)>>
    [] s = "recovering" ->
         <<"Today was a rest day",
           IF d.dominantEmotion # "null" THEN <<"feeling", d.dominantEmotion>>
                                         ELSE <<>> >>
    [] s = "discouraged" -> <<"Today didn't go as planned">>
    [] s = "strong_start" ->
         <<"You put in", toFixed1(d.studyHours),
           IF d.completedSessions > 0 THEN <<"completed", d.completedSessions>>
                                      ELSE <<>> >>
    [] OTHER ->
         <<"Today was a balanced day",
           IF d.studyHours > 0 THEN <<"studied", toFixed1(d.studyHours)>>
                               ELSE <<"time for yourself">>,
           hasEmotionData(d)>>

\* mutant: the stressed branch picks its closing line by the study time
closingLineOf_ByStudy(s, d) ==
  CASE s = "stressed" ->
         IF d.studyHours > 0 THEN "Tomorrow is a fresh start."
                             ELSE "Rest is part of growth."
    [] s = "proud" -> "You should feel proud of yourself."
    [] s = "motivated" -> "Keep this momentum going!"
    [] s = "tired_but_consistent" -> "Every step forward counts."
    [] s = "recovering" -> "Rest is part of growth."
    [] s = "discouraged" -> "One tough day doesn't erase your progress."
    [] s = "strong_start" -> "Keep building those habits!"
    [] OTHER -> "Balance is the key to long-term success."

\* the closing line each branch assigns
closingLineOf(s, d) ==
  CASE s = "stressed" -> "Tomorrow is a fresh start."
    [] s = "proud" -> "You should feel proud of yourself."
    [] s = "motivated" -> "Keep this momentum going!"
    [] s = "tired_but_consistent" -> "Every step forward counts."
    [] s = "recovering" -> "Rest is part of growth."
    [] s = "discouraged" -> "One tough day doesn't erase your progress."
    [] s = "strong_start" -> "Keep building those habits!"
    [] OTHER -> "Balance is the key to long-term success."

generateMessage(d) ==
  LET s == classifyState(d)
  IN [state |-> s, message |-> messageOf(s, d), closingLine |-> closingLineOf(s, d)]

(***************************************************************************)
(* State.                                                                  *)
(***************************************************************************)
VARIABLES
  data,      \* the feature tuple handed to generateMessage
  result,    \* what the last call of generateMessage returned, or "none"
  first,     \* state and closing line the first call returned, or "none"
  today,     \* the date new Date().toISOString().split("T")[0] returns
  hour,      \* the local hour new Date().getHours() returns
  lastSummaryDate,        \* localStorage[SUMMARY_STORAGE_KEY], 0 when unset
  sessionsCompleteShown,  \* localStorage[ALL_SESSIONS_COMPLETE_KEY], 0 when unset
  hasTriggeredRef,        \* hasTriggeredRef.current
  summary,   \* the summary state of the hook: "null" or "summary"
  showPopup, \* the showPopup state of the hook
  mounted,   \* the subscription effect is installed (channel and interval)
  schedule,  \* sessions the active schedule plans for today, -1: no active schedule
  completed, \* today's completion records with status 'completed' of the
             \* active schedule and today's weekday
  timers,    \* pending 500 ms debounce timers of the realtime callback
  runs,      \* trigger runs suspended at an await: [check, fetch, time]
  lastOp,    \* the operation that made the last step
  openedBy,  \* the trigger whose run opened the popup that is showing
  autoOpened, \* times an automatic trigger opened the closed popup today
  sessFired, \* times triggerOnAllSessionsComplete showed the popup today
  manualRuns \* runs of showSummaryNow suspended at await fetchDaySummary()

VARIABLES
  agg,       \* fetchStats' aggregates: avgFocusLevel, avgStressLevel,
             \* emotionCount (emotionsList.length), totalStudyTime
  scores,    \* the scores fetchStats derives from them, or NoScores
  db,        \* the user's rows: emotion_logs, study_sessions,
             \* schedule_session_completions, the active study_schedules row
  fetchRun,  \* the run of fetchStats: the await it is suspended at and the
             \* lists it holds so far
  stats,     \* the stats state of useWellbeingStats
  weeklyAnalytics, \* the weeklyAnalytics state of useWellbeingStats
  loading,   \* the loading state of useWellbeingStats
  outcome,   \* how the run of fetchStats ended: "none", "success", "thrown"
  authed,    \* useAuth: isAuthenticated && user
  hooks,     \* the useStudySession instance of each component: mounted,
             \* sessionCreatedRef.current, currentSession (row id, 0: null),
             \* the await its run is suspended at
  sessionRows, \* the user's study_sessions rows, by id: the columns
             \* logout_timestamp and duration_seconds of each
  logout     \* handleLogout of AppSidebar: "none", "ending", "signout"

VARIABLES
  gen,       \* ScheduleGenerator: subjects.length, generating, schedule,
             \* the last toast, the clicks on Generate and the invocations
             \* of the function they caused
  fn,        \* the request generate-schedule is serving: where its handler
             \* is, the upstream calls it made, the upstream reply, its answer
  cam,       \* EmotionAnalyzer's camera: isCameraActive, videoReady,
             \* capturedImage, imageLoading, streamRef.current, the media
             \* streams acquired so far, the runs of startCamera
  ana,       \* EmotionAnalyzer's analysis: analyzing, result, the runs of
             \* handleAnalyze, abortControllerRef.current, the last toast
  tiles,     \* SlidingPuzzle: the tile arrangement
  daySummary, \* the DaySummary fetchDaySummary returned
  tracker,   \* StudyTracker: the timer, the selected subject, the logs
  breath     \* BreathingExercise: isActive, phase, the pending timers

msgVars == <<data, result, first>>

hookVars ==
  <<today, hour, lastSummaryDate, sessionsCompleteShown, hasTriggeredRef,
    summary, showPopup, mounted, schedule, completed, timers, runs, lastOp,
    openedBy, autoOpened, sessFired>>

manualVars == <<manualRuns>>

scoreVars == <<agg, scores>>

statsVars == <<db, fetchRun, stats, weeklyAnalytics, loading, outcome>>

sessionVars == <<authed, hooks, sessionRows, logout>>

scheduleVars == <<gen, fn>>

cameraVars == <<cam>>

analysisVars == <<ana>>

puzzleVars == <<tiles>>

dayVars == <<daySummary>>

trackerVars == <<tracker>>

breathVars == <<breath>>

\* the state of the components of the pages
pageVars ==
  <<scheduleVars, cameraVars, analysisVars, puzzleVars, dayVars, trackerVars,
    breathVars>>

\* the state of the hooks
coreVars ==
  <<msgVars, hookVars, manualVars, scoreVars, statsVars, sessionVars>>

\* what the steps of ScheduleGenerator and generate-schedule leave alone
nonScheduleVars ==
  <<coreVars, cameraVars, analysisVars, puzzleVars, dayVars, trackerVars,
    breathVars>>

\* what the steps of the camera leave alone
nonCameraVars ==
  <<coreVars, scheduleVars, analysisVars, puzzleVars, dayVars, trackerVars,
    breathVars>>

\* what the steps of handleAnalyze leave alone
nonAnalysisVars ==
  <<coreVars, scheduleVars, cameraVars, puzzleVars, dayVars, trackerVars,
    breathVars>>

\* what the steps of the puzzle leave alone
nonPuzzleVars ==
  <<coreVars, scheduleVars, cameraVars, analysisVars, dayVars, trackerVars,
    breathVars>>

\* what the steps of StudyTracker leave alone
nonTrackerVars ==
  <<coreVars, scheduleVars, cameraVars, analysisVars, puzzleVars, dayVars,
    breathVars>>

\* what the steps of BreathingExercise leave alone
nonBreathVars ==
  <<coreVars, scheduleVars, cameraVars, analysisVars, puzzleVars, dayVars,
    trackerVars>>

\* what the steps of the trigger wrapper leave alone
nonHookVars ==
  <<msgVars, manualVars, scoreVars, statsVars, sessionVars, pageVars>>

\* what the steps of showSummaryNow leave alone, besides the trigger state
nonManualVars == <<msgVars, scoreVars, statsVars, sessionVars, pageVars>>

\* what the steps of fetchStats leave alone
nonStatsVars ==
  <<msgVars, hookVars, manualVars, scoreVars, sessionVars, pageVars>>

\* what the steps of useStudySession and handleLogout leave alone
nonSessionVars ==
  <<msgVars, hookVars, manualVars, scoreVars, statsVars, pageVars>>

vars == <<coreVars, pageVars>>

\* the state of a hook that no mounted component has called: there is none
Absent == <<>>

\* no run of the score arithmetic
ScoresIdle == agg = Absent /\ scores = Absent

\* no component has called useWellbeingStats
StatsIdle ==
  /\ db = Absent
  /\ fetchRun = Absent
  /\ stats = Absent
  /\ weeklyAnalytics = Absent
  /\ loading = Absent
  /\ outcome = Absent

\* no component has called useStudySession, nobody is signed in
SessionIdle ==
  /\ authed = FALSE
  /\ hooks = Absent
  /\ sessionRows = <<>>
  /\ logout = "none"

\* a page that is not open has no state
ScheduleIdle == gen = Absent /\ fn = Absent
CameraIdle == cam = Absent
AnalysisIdle == ana = Absent
PuzzleIdle == tiles = Absent
DayIdle == daySummary = Absent
TrackerIdle == tracker = Absent
BreathIdle == breath = Absent

\* no page is open
PagesIdle ==
  /\ ScheduleIdle
  /\ CameraIdle
  /\ AnalysisIdle
  /\ PuzzleIdle
  /\ DayIdle
  /\ TrackerIdle
  /\ BreathIdle

(***************************************************************************)
(* The score arithmetic of fetchStats (useWellbeingStats).  Math.round is  *)
(* taken on exact quotients; binary floating point is not modelled.        *)
(***************************************************************************)
\* bounds of the score model
MaxLogCount == 10
MaxStudySeconds == 410

\* the range of the level averages the score is documented for
MAX_LEVEL == 100

\* the study-time thresholds of burnoutRisk: 25 * 3600 and 20 * 3600
HIGH_STUDY_SECONDS == 25 * 3600
MEDIUM_STUDY_SECONDS == 20 * 3600

\* Math.round(num / den) for num >= 0, den > 0: halves round up
Round(num, den) == (2 * num + den) \div (2 * den)

Min(a, b) == IF a < b THEN a ELSE b

\* a variant of wellnessScore without the cap of the consistency term
wellnessScore_NoCap(f, s, n) ==
  Round(4 * f + 3 * (MAX_LEVEL - s) + 10 * (n * 5), 10)

\* Math.round(avgFocusLevel * 0.4 + (100 - avgStressLevel) * 0.3
\*            + Math.min(emotionsList.length * 5, 30)), in tenths
wellnessScore(f, s, n) ==
  Round(4 * f + 3 * (MAX_LEVEL - s) + 10 * Min(n * 5, 30), 10)

\* a variant of burnoutRisk whose stress tests are inclusive
burnoutRisk_Inclusive(s, t) ==
  IF s >= 70 \/ t > HIGH_STUDY_SECONDS THEN "High"
  ELSE IF s >= 50 \/ t > MEDIUM_STUDY_SECONDS THEN "Medium"
  ELSE "Low"

\* a variant of burnoutRisk whose stress thresholds are on the scale of ten
burnoutRisk_ScaleOfTen(s, t) ==
  IF s > 7 \/ t > HIGH_STUDY_SECONDS THEN "High"
  ELSE IF s > 5 \/ t > MEDIUM_STUDY_SECONDS THEN "Medium"
  ELSE "Low"

burnoutRisk(s, t) ==
  IF s > 70 \/ t > HIGH_STUDY_SECONDS THEN "High"
  ELSE IF s > 50 \/ t > MEDIUM_STUDY_SECONDS THEN "Medium"
  ELSE "Low"

\* a variant of totalBreakTime that truncates
totalBreakTime_Floor(t) == (2 * t) \div 10

\* Math.round(totalStudyTime * 0.2)
totalBreakTime(t) == Round(2 * t, 10)

\* totalStudyTime > 0
\*   ? Math.min(Math.round((totalBreakTime / (totalStudyTime * 0.25)) * 100), 100)
\*   : 0
breakEfficiency(t) ==
  IF t > 0 THEN Min(Round(400 * totalBreakTime(t), t), 100) ELSE 0

\* totalStudyTime > 0 ? Math.round((totalBreakTime / totalStudyTime) * 100) : 20
breakVsStudyRatio(t) ==
  IF t > 0 THEN Round(100 * totalBreakTime(t), t) ELSE 20

\* the scores of one run of fetchStats
Scores(a) ==
  [wellnessScore |-> wellnessScore(a.avgFocusLevel, a.avgStressLevel,
                                   a.emotionCount),
   burnoutRisk |-> burnoutRisk(a.avgStressLevel, a.totalStudyTime),
   totalBreakTime |-> totalBreakTime(a.totalStudyTime),
   breakEfficiency |-> breakEfficiency(a.totalStudyTime),
   breakVsStudyRatio |-> breakVsStudyRatio(a.totalStudyTime)]

NoScores ==
  [wellnessScore |-> -1, burnoutRisk |-> "none", totalBreakTime |-> -1,
   breakEfficiency |-> -1, breakVsStudyRatio |-> -1]

\* study times around the thresholds of burnoutRisk
ThresholdTimes ==
  {MEDIUM_STUDY_SECONDS, MEDIUM_STUDY_SECONDS + 1, HIGH_STUDY_SECONDS,
   HIGH_STUDY_SECONDS + 1}

\* the aggregates the score arithmetic is applied to: every pair of level
\* averages with a study time at a threshold, and every short study time
ScoreInputs ==
  [avgFocusLevel : 0..MAX_LEVEL, avgStressLevel : 0..MAX_LEVEL,
   emotionCount : 0..MaxLogCount, totalStudyTime : ThresholdTimes]
  \cup
  [avgFocusLevel : {0}, avgStressLevel : {0, MAX_LEVEL},
   emotionCount : {0}, totalStudyTime : 0..MaxStudySeconds]

\* lines 173-190 of fetchStats: the scores are computed from the aggregates
ComputeScores ==
  /\ scores = NoScores
  /\ scores' = Scores(agg)
  /\ UNCHANGED <<agg, msgVars, hookVars, manualVars, statsVars, sessionVars,
                 pageVars>>

(***************************************************************************)
(* fetchStats of useWellbeingStats over the rows of one user.  The effect  *)
(* calls it once the user is known; no component calls refetch.  A run is  *)
(* suspended at each of its four queries.                                  *)
(***************************************************************************)
\* bounds of the dataset
MaxLogs == 2
MaxSessionRows == 1
MaxCompletionRows == 2
MaxPlanDays == 2
MaxDaySessions == 2

\* a null column
NULL == -1

\* created_at values from WEEK_START on pass .gte("created_at", weekStartStr)
WEEK_START == 1

dayNames == <<"Sun", "Mon", "Tue", "Wed", "Thu", "Fri", "Sat">>

\* d.getDay() of the logs of the dataset: a Sunday and a Wednesday
LogDays == {0, 3}

\* focus_level and stress_level of a log: the sliders of the emotion form
\* write 1..10, a column may be null
LogLevels ==
  {[focus_level |-> NULL, stress_level |-> 9],
   [focus_level |-> 1, stress_level |-> NULL],
   [focus_level |-> 2, stress_level |-> 8]}

LogEmotions == {"happy", "sad"}

LogFields ==
  {[day |-> d, focus_level |-> l.focus_level,
    stress_level |-> l.stress_level, emotion |-> e] :
     d \in LogDays, l \in LogLevels, e \in LogEmotions}

\* emotion_logs tables: at most MaxLogs rows, no two logged at the same time
EmotionTables ==
  LET times == {T \in SUBSET (0..MaxLogs) : Cardinality(T) <= MaxLogs}
      fill == UNION {[T -> LogFields] : T \in times}
  IN {{[created_at |-> t, day |-> f[t].day,
        focus_level |-> f[t].focus_level,
        stress_level |-> f[t].stress_level,
        emotion |-> f[t].emotion] : t \in DOMAIN f} : f \in fill}

SeqsUpTo(S, n) == UNION {[1..k -> S] : k \in 0..n}

\* study_sessions rows: duration_seconds is null while a session is open
SessionTables ==
  SeqsUpTo([created_at : {0, WEEK_START}, duration_seconds : {NULL, 3}],
           MaxSessionRows)

CompletionTables == SeqsUpTo([created_at : {0, WEEK_START}], MaxCompletionRows)

\* the active schedule: none, a weekly_plan that is no array, or a
\* weekly_plan of days with their sessions (here: how many)
NoSchedule == [kind |-> "none", days |-> <<>>]

MalformedPlan == [kind |-> "malformed", days |-> <<>>]

Schedules ==
  {NoSchedule, MalformedPlan}
    \cup {[kind |-> "plan", days |-> d] :
            d \in SeqsUpTo(0..MaxDaySessions, MaxPlanDays)}

OneLog ==
  [created_at |-> WEEK_START, day |-> 3, focus_level |-> 2,
   stress_level |-> 8, emotion |-> "happy"]

OneSession == <<[created_at |-> WEEK_START, duration_seconds |-> 3]>>

\* the datasets fetchStats is run over: every emotion_logs table, every
\* study_sessions table, and every pair of completions and schedule, each
\* with little in the other tables
Datasets ==
  [emotion_logs : EmotionTables, study_sessions : {<<>>},
   completions : {<<>>}, schedule : {NoSchedule}]
  \cup
  [emotion_logs : {{}, {OneLog}}, study_sessions : SessionTables,
   completions : {<<>>}, schedule : {NoSchedule}]
  \cup
  [emotion_logs : {{}, {OneLog}}, study_sessions : {<<>>, OneSession},
   completions : CompletionTables, schedule : Schedules]

\* .order("created_at", { ascending: true })
RECURSIVE SortAscending(_)
SortAscending(rows) ==
  IF rows = {} THEN <<>>
  ELSE LET m == CHOOSE r \in rows :
                  \A q \in rows : r.created_at <= q.created_at
       IN <<m>> \o SortAscending(rows \ {m})

\* the emotion_logs query of lines 70-75
QueryEmotions(d) ==
  SortAscending({r \in d.emotion_logs : r.created_at >= WEEK_START})

\* the queries of lines 80-85 and 90-94
QueryRecent(rows) == SelectSeq(rows, LAMBDA r : r.created_at >= WEEK_START)

RECURSIVE Sum(_)
Sum(q) == IF q = <<>> THEN 0 ELSE Head(q) + Sum(Tail(q))

\* filter(e => e.focus_level): null and 0 are dropped
Truthy(v) == v # NULL /\ v # 0

\* a variant of focusLevels that keeps a null level as 0
focusLevels_NullAsZero(list) ==
  [i \in 1..Len(list) |->
     IF list[i].focus_level = NULL THEN 0 ELSE list[i].focus_level]

focusLevels(list) ==
  LET kept == SelectSeq(list, LAMBDA e : Truthy(e.focus_level))
  IN [i \in 1..Len(kept) |-> kept[i].focus_level]

stressLevels(list) ==
  LET kept == SelectSeq(list, LAMBDA e : Truthy(e.stress_level))
  IN [i \in 1..Len(kept) |-> kept[i].stress_level]

\* levels.length > 0 ? Math.round(sum / levels.length) : 0
Average(levels) ==
  IF Len(levels) > 0 THEN Round(Sum(levels), Len(levels)) ELSE 0

\* a variant of dominantMood that takes the day's first log
dominantMood_First(dayEmotions) ==
  IF Len(dayEmotions) > 0 THEN dayEmotions[1].emotion ELSE "neutral"

\* dayEmotions.length > 0 ? dayEmotions[dayEmotions.length - 1].emotion
\*                        : "neutral"
dominantMood(dayEmotions) ==
  IF Len(dayEmotions) > 0 THEN dayEmotions[Len(dayEmotions)].emotion
  ELSE "neutral"

\* dayNames.map(day => ...), lines 132-148
weeklyEmotionsOf(list) ==
  [i \in 1..Len(dayNames) |->
     LET dayEmotions == SelectSeq(list, LAMBDA e : e.day = i - 1)
     IN [day |-> dayNames[i],
         focus |-> Average(focusLevels(dayEmotions)),
         stress |-> Average(stressLevels(dayEmotions)),
         mood |-> dominantMood(dayEmotions)]]

\* sessionsList.reduce((acc, s) => acc + (s.duration_seconds || 0), 0)
totalStudyTimeOf(list) ==
  Sum([i \in 1..Len(list) |->
         IF list[i].duration_seconds = NULL THEN 0
         ELSE list[i].duration_seconds])

\* lines 110-190: what setStats receives
StatsOf(emotionsList, sessionsList) ==
  LET a == [avgFocusLevel |-> Average(focusLevels(emotionsList)),
            avgStressLevel |-> Average(stressLevels(emotionsList)),
            emotionCount |-> Len(emotionsList),
            totalStudyTime |-> totalStudyTimeOf(sessionsList)]
      sc == Scores(a)
  IN [wellnessScore |-> sc.wellnessScore,
      burnoutRisk |-> sc.burnoutRisk,
      breakEfficiency |-> sc.breakEfficiency,
      avgFocusLevel |-> a.avgFocusLevel,
      avgStressLevel |-> a.avgStressLevel,
      weeklyEmotions |-> weeklyEmotionsOf(emotionsList),
      totalBreakTime |-> sc.totalBreakTime,
      totalStudyTime |-> a.totalStudyTime]

\* weeklyPlan.reduce((acc, day) => acc + (day.sessions?.length || 0), 0) || 0
plannedSessionsOf(sched) ==
  IF sched.kind = "plan" THEN Sum(sched.days) ELSE 0

\* a variant of completionRateOf that truncates the percentage
completionRateOf_Floor(completionsList, sched) ==
  IF plannedSessionsOf(sched) > 0
    THEN (100 * Len(completionsList)) \div plannedSessionsOf(sched)
    ELSE 0

\* plannedSessions > 0
\*   ? Math.round((completionsList.length / plannedSessions) * 100) : 0
completionRateOf(completionsList, sched) ==
  IF plannedSessionsOf(sched) > 0
    THEN Round(100 * Len(completionsList), plannedSessionsOf(sched))
    ELSE 0

\* lines 254-263: what setWeeklyAnalytics receives; totalStudyHours is in
\* tenths of an hour, Math.round(totalStudyHours * 10) / 10
AnalyticsOf(st, completionsList, sched) ==
  [totalStudyHours |-> Round(10 * st.totalStudyTime, 3600),
   completionRate |-> completionRateOf(completionsList, sched),
   avgFocusLevel |-> st.avgFocusLevel,
   avgStressLevel |-> st.avgStressLevel,
   breakVsStudyRatio |-> breakVsStudyRatio(st.totalStudyTime)]

\* useState<WellbeingStats>({...})
InitialStats ==
  [wellnessScore |-> 0, burnoutRisk |-> "Low", breakEfficiency |-> 0,
   avgFocusLevel |-> 0, avgStressLevel |-> 0, weeklyEmotions |-> <<>>,
   totalBreakTime |-> 0, totalStudyTime |-> 0]

\* useState<WeeklyAnalytics>({...})
InitialAnalytics ==
  [totalStudyHours |-> 0, completionRate |-> 0, avgFocusLevel |-> 0,
   avgStressLevel |-> 0, breakVsStudyRatio |-> 0]

IdleRun ==
  [at |-> "idle", emotions |-> <<>>, sessions |-> <<>>, completions |-> <<>>,
   failed |-> {}]

\* useWellbeingStats as constructed: useState(true) for loading
StatsInit ==
  /\ fetchRun = IdleRun
  /\ stats = InitialStats
  /\ weeklyAnalytics = InitialAnalytics
  /\ loading = TRUE
  /\ outcome = "none"

\* the effect calls fetchStats: setLoading(true), then the first query
FetchStatsCall ==
  /\ fetchRun.at = "idle"
  /\ outcome = "none"
  /\ loading' = TRUE
  /\ fetchRun' = [fetchRun EXCEPT !.at = "emotions"]
  /\ UNCHANGED <<db, stats, weeklyAnalytics, outcome>>
  /\ UNCHANGED nonStatsVars

\* the emotion_logs query returns: its rows, or an error that is logged
\* (emotions || [])
EmotionsReturn ==
  /\ fetchRun.at = "emotions"
  /\ \E err \in BOOLEAN :
       fetchRun' =
         [fetchRun EXCEPT
            !.at = "sessions",
            !.emotions = IF err THEN <<>> ELSE QueryEmotions(db),
            !.failed = IF err THEN @ \cup {"emotions"} ELSE @]
  /\ UNCHANGED <<db, stats, weeklyAnalytics, loading, outcome>>
  /\ UNCHANGED nonStatsVars

\* the study_sessions query returns (sessions || [])
SessionsReturn ==
  /\ fetchRun.at = "sessions"
  /\ \E err \in BOOLEAN :
       fetchRun' =
         [fetchRun EXCEPT
            !.at = "completions",
            !.sessions = IF err THEN <<>> ELSE QueryRecent(db.study_sessions),
            !.failed = IF err THEN @ \cup {"sessions"} ELSE @]
  /\ UNCHANGED <<db, stats, weeklyAnalytics, loading, outcome>>
  /\ UNCHANGED nonStatsVars

\* the schedule_session_completions query returns (completions || [])
CompletionsReturn ==
  /\ fetchRun.at = "completions"
  /\ \E err \in BOOLEAN :
       fetchRun' =
         [fetchRun EXCEPT
            !.at = "schedule",
            !.completions = IF err THEN <<>> ELSE QueryRecent(db.completions),
            !.failed = IF err THEN @ \cup {"completions"} ELSE @]
  /\ UNCHANGED <<db, stats, weeklyAnalytics, loading, outcome>>
  /\ UNCHANGED nonStatsVars

\* a variant of loadingAfter without the finally clause
loadingAfter_NoFinally(thrown) == IF thrown THEN loading ELSE FALSE

\* finally { setLoading(false) }
loadingAfter(thrown) == FALSE

\* the study_schedules query returns, data null on an error; the rest of
\* fetchStats runs: setStats, then plannedSessions, where a weekly_plan
\* that is no array throws (weeklyPlan.reduce is not a function), which the
\* catch clause logs; setWeeklyAnalytics; the finally clause
ScheduleReturns ==
  /\ fetchRun.at = "schedule"
  /\ \E err \in BOOLEAN :
       LET sched == IF err THEN NoSchedule ELSE db.schedule
           st == StatsOf(fetchRun.emotions, fetchRun.sessions)
           thrown == sched.kind = "malformed"
       IN /\ stats' = st
          /\ weeklyAnalytics' =
               IF thrown THEN weeklyAnalytics
               ELSE AnalyticsOf(st, fetchRun.completions, sched)
          /\ outcome' = IF thrown THEN "thrown" ELSE "success"
          /\ loading' = loadingAfter(thrown)
          /\ fetchRun' =
               [IdleRun EXCEPT
                  !.at = "done",
                  !.failed = IF err THEN fetchRun.failed \cup {"schedule"}
                             ELSE fetchRun.failed]
  /\ UNCHANGED db
  /\ UNCHANGED nonStatsVars

(***************************************************************************)
(* useStudySession, one instance for each component that calls it, and     *)
(* handleLogout of AppSidebar, the only caller of endSession.  A run of    *)
(* createSession is suspended at its insert, a run of endSession at its    *)
(* update.  A component is unmounted only while none of its runs is        *)
(* suspended; a component that mounts again gets a new instance.           *)
(***************************************************************************)
\* bound of the study_sessions rows
MaxRows == 3

\* the components that call useStudySession
Instances == {"AppSidebar", "EmotionAnalyzer"}

\* useState(null), useState(false), useRef(false)
FreshHook == [mounted |-> FALSE, ref |-> FALSE, current |-> 0, run |-> "none"]

\* nobody is signed in, no component is mounted, the user has no rows
SessionInit ==
  /\ authed = FALSE
  /\ hooks = [i \in Instances |-> FreshHook]
  /\ sessionRows = <<>>
  /\ logout = "none"

\* an argument that the caller left out
UNDEFINED == -2

\* the value of logout_timestamp that endSession writes
LOGOUT_TIME == 1

\* a row as startSession inserts it: both columns take their default
NewRow == [logout_timestamp |-> NULL, duration_seconds |-> NULL]

\* the row after the update of endSession(durationSeconds): a property
\* whose value is undefined is not part of the request body, and its
\* column keeps its value
endSessionUpdate(row, durationSeconds) ==
  [logout_timestamp |-> LOGOUT_TIME,
   duration_seconds |-> IF durationSeconds = UNDEFINED
                          THEN row.duration_seconds
                          ELSE durationSeconds]

OpenRows ==
  {id \in DOMAIN sessionRows : sessionRows[id].logout_timestamp = NULL}

InsertsInFlight == Cardinality({i \in Instances : hooks[i].run = "insert"})

\* the effect of lines 312-316 and createSession up to its await: with a
\* user and sessionCreatedRef.current false the flag is set and the insert
\* is sent
effectOf(h, auth) ==
  IF auth /\ h.mounted /\ ~h.ref
    THEN [h EXCEPT !.ref = TRUE, !.run = "insert"]
    ELSE h

\* a component mounts: its instance is new and its effect runs
MountComponent ==
  /\ \E i \in Instances :
       /\ ~hooks[i].mounted
       /\ Len(sessionRows) + InsertsInFlight < MaxRows
       /\ hooks' = [hooks EXCEPT
                      ![i] = effectOf([FreshHook EXCEPT !.mounted = TRUE],
                                      authed)]
  /\ UNCHANGED <<authed, sessionRows, logout>>
  /\ UNCHANGED nonSessionVars

\* a component unmounts: the state and the ref of its instance are gone
UnmountComponent ==
  /\ \E i \in Instances :
       /\ hooks[i].mounted
       /\ hooks[i].run = "none"
       /\ i = "AppSidebar" => logout = "none"
       /\ hooks' = [hooks EXCEPT ![i] = FreshHook]
  /\ UNCHANGED <<authed, sessionRows, logout>>
  /\ UNCHANGED nonSessionVars

\* the user signs in: the effect of every mounted instance runs
SignIn ==
  /\ ~authed
  /\ logout = "none"
  /\ Len(sessionRows) + Cardinality(Instances) <= MaxRows
  /\ authed' = TRUE
  /\ hooks' = [i \in Instances |-> effectOf(hooks[i], TRUE)]
  /\ UNCHANGED <<sessionRows, logout>>
  /\ UNCHANGED nonSessionVars

\* the insert of createSession returns: a new open row that becomes
\* currentSession, or an error that resets the flag
InsertReturns ==
  /\ \E i \in Instances :
       /\ hooks[i].run = "insert"
       /\ \E ok \in BOOLEAN :
            IF ok
              THEN /\ sessionRows' = Append(sessionRows, NewRow)
                   /\ hooks' = [hooks EXCEPT ![i].run = "none",
                                             ![i].current = Len(sessionRows) + 1]
              ELSE /\ sessionRows' = sessionRows
                   /\ hooks' = [hooks EXCEPT ![i].run = "none",
                                             ![i].ref = FALSE]
  /\ UNCHANGED <<authed, logout>>
  /\ UNCHANGED nonSessionVars

\* handleLogout up to its first await: endSession's update when AppSidebar
\* has a currentSession, signOut otherwise
handleLogout ==
  /\ authed
  /\ logout = "none"
  /\ hooks["AppSidebar"].mounted
  /\ hooks["AppSidebar"].run = "none"
  /\ IF hooks["AppSidebar"].current # 0
       THEN /\ hooks' = [hooks EXCEPT !["AppSidebar"].run = "update"]
            /\ logout' = "ending"
       ELSE /\ hooks' = hooks
            /\ logout' = "signout"
  /\ UNCHANGED <<authed, sessionRows>>
  /\ UNCHANGED nonSessionVars

\* the update of endSession returns: the row is closed, currentSession and
\* the flag are reset; on an error nothing changes; handleLogout goes on to
\* signOut
UpdateReturns ==
  /\ logout = "ending"
  /\ hooks["AppSidebar"].run = "update"
  /\ \E ok \in BOOLEAN :
       IF ok
         THEN /\ sessionRows' =
                   [sessionRows EXCEPT
                      ![hooks["AppSidebar"].current] =
                         endSessionUpdate(@, UNDEFINED)]
              /\ hooks' = [hooks EXCEPT !["AppSidebar"].run = "none",
                                        !["AppSidebar"].current = 0,
                                        !["AppSidebar"].ref = FALSE]
         ELSE /\ sessionRows' = sessionRows
              /\ hooks' = [hooks EXCEPT !["AppSidebar"].run = "none"]
  /\ logout' = "signout"
  /\ UNCHANGED authed
  /\ UNCHANGED nonSessionVars

\* signOut returns: no user; the effects run and find none
SignOutReturns ==
  /\ logout = "signout"
  /\ authed' = FALSE
  /\ logout' = "none"
  /\ UNCHANGED <<hooks, sessionRows>>
  /\ UNCHANGED nonSessionVars

(***************************************************************************)
(* SpecMsg: generateMessage applied to feature tuples.                     *)
(***************************************************************************)
(***************************************************************************)
(* The trigger wrapper of useEndOfDaySummary.                              *)
(*                                                                         *)
(* A run of a trigger is suspended at each await: a run of                 *)
(* triggerOnAllSessionsComplete first at checkAllSessionsComplete (check), *)
(* then at fetchDaySummary (fetch); a run of checkAndShowSummary at        *)
(* fetchDaySummary (time).  Everything between two awaits is one step.     *)
(* The awaits are network round trips and the debounce is 500 ms: the date  *)
(* does not change while a run is suspended or a debounce timer pending.   *)
(***************************************************************************)
\* bounds of the trigger model
MaxDay == 2
MaxPlanned == 1
MaxCompleted == 2
MaxTimers == 2
MaxRuns == 2
MaxCount == 2

\* the hour checkAndShowSummary compares with: if (hour < 20) return
END_OF_DAY_HOUR == 20

Days == 1..MaxDay

\* local hours before and after the end-of-day hour
Hours == {END_OF_DAY_HOUR - 1, END_OF_DAY_HOUR}

NoRuns == [check |-> 0, fetch |-> 0, time |-> 0]

InFlight(r) == r.check + r.fetch + r.time

\* a counter that stops at MaxCount
Bump(n) == IF n < MaxCount THEN n + 1 ELSE n

\* the state of the hook after construction: useState(null), useState(false),
\* useRef(false), nothing stored, nothing installed
HookInit ==
  /\ today = 1
  /\ hour \in Hours
  /\ lastSummaryDate = 0
  /\ sessionsCompleteShown = 0
  /\ hasTriggeredRef = FALSE
  /\ summary = "null"
  /\ showPopup = FALSE
  /\ mounted = FALSE
  /\ schedule \in -1..MaxPlanned
  /\ completed = 0
  /\ timers = 0
  /\ runs = NoRuns
  /\ lastOp = "init"
  /\ openedBy = "none"
  /\ autoOpened = 0
  /\ sessFired = 0
  /\ manualRuns = 0

\* checkAllSessionsComplete: an active schedule exists, it plans sessions for
\* today, and completedCount >= totalSessions && totalSessions > 0
checkAllSessionsComplete ==
  IF schedule = -1 THEN FALSE
  ELSE IF schedule = 0 THEN FALSE
  ELSE completed >= schedule /\ schedule > 0

\* the guards of triggerOnAllSessionsComplete before its first await, with
\* ref the value of hasTriggeredRef.current when it is called
triggerGuardsPass(ref) ==
  IF ref THEN FALSE
  ELSE IF sessionsCompleteShown = today THEN FALSE
  ELSE TRUE

\* mutant: checkAndShowSummary without its hour guard
checkGuardsPass_NoHour == IF lastSummaryDate = today THEN FALSE ELSE TRUE

\* the guards of checkAndShowSummary before its await
checkGuardsPass ==
  IF hour < END_OF_DAY_HOUR THEN FALSE
  ELSE IF lastSummaryDate = today THEN FALSE
  ELSE TRUE

\* the effect's reset of the flag: if (alreadyShown !== today) ref = false
resetRef == IF sessionsCompleteShown # today THEN FALSE ELSE hasTriggeredRef

\* a run sets setSummary(summaryData); setShowPopup(true)
Show(by) ==
  /\ summary' = "summary"
  /\ showPopup' = TRUE
  /\ openedBy' = IF showPopup THEN openedBy ELSE by
  /\ autoOpened' = IF showPopup THEN autoOpened ELSE Bump(autoOpened)

\* the subscription effect runs (isAuthenticated && user): the flag is
\* reset, both triggers are called, channel and interval are installed
Mount ==
  /\ ~mounted
  /\ mounted' = TRUE
  /\ hasTriggeredRef' = resetRef
  /\ runs' = [runs EXCEPT
                !.check = @ + (IF triggerGuardsPass(resetRef) THEN 1 ELSE 0),
                !.time = @ + (IF checkGuardsPass THEN 1 ELSE 0)]
  /\ InFlight(runs') <= MaxRuns
  /\ lastOp' = "Mount"
  /\ UNCHANGED nonHookVars
  /\ UNCHANGED <<today, hour, lastSummaryDate, sessionsCompleteShown, summary,
                 showPopup, schedule, completed, timers, openedBy, autoOpened,
                 sessFired>>

\* the effect's cleanup: clearInterval and removeChannel; pending debounce
\* timers and suspended runs are not cancelled
Unmount ==
  /\ mounted
  /\ mounted' = FALSE
  /\ lastOp' = "Unmount"
  /\ UNCHANGED nonHookVars
  /\ UNCHANGED <<today, hour, lastSummaryDate, sessionsCompleteShown,
                 hasTriggeredRef, summary, showPopup, schedule, completed,
                 timers, runs, openedBy, autoOpened, sessFired>>

\* setInterval(checkAndShowSummary, 30 min) fires
IntervalTick ==
  /\ mounted
  /\ runs' = [runs EXCEPT !.time = @ + (IF checkGuardsPass THEN 1 ELSE 0)]
  /\ InFlight(runs') <= MaxRuns
  /\ lastOp' = "IntervalTick"
  /\ UNCHANGED nonHookVars
  /\ UNCHANGED <<today, hour, lastSummaryDate, sessionsCompleteShown,
                 hasTriggeredRef, summary, showPopup, mounted, schedule,
                 completed, timers, openedBy, autoOpened, sessFired>>

\* a change of schedule_session_completions reaches the realtime callback,
\* which sets a 500 ms timer; counts tells whether the change is a new
\* 'completed' record of the active schedule and today's weekday
CompletionEvent ==
  /\ \E counts \in BOOLEAN :
       /\ counts => completed < MaxCompleted
       /\ completed' = IF counts THEN completed + 1 ELSE completed
  /\ IF mounted
       THEN timers < MaxTimers /\ timers' = timers + 1
       ELSE timers' = timers
  /\ lastOp' = "CompletionEvent"
  /\ UNCHANGED nonHookVars
  /\ UNCHANGED <<today, hour, lastSummaryDate, sessionsCompleteShown,
                 hasTriggeredRef, summary, showPopup, mounted, schedule, runs,
                 openedBy, autoOpened, sessFired>>

\* a debounce timer fires: triggerOnAllSessionsComplete runs to its first await
DebounceFires ==
  /\ timers > 0
  /\ timers' = timers - 1
  /\ runs' = [runs EXCEPT
                !.check = @ + (IF triggerGuardsPass(hasTriggeredRef) THEN 1 ELSE 0)]
  /\ InFlight(runs') <= MaxRuns
  /\ lastOp' = "DebounceFires"
  /\ UNCHANGED nonHookVars
  /\ UNCHANGED <<today, hour, lastSummaryDate, sessionsCompleteShown,
                 hasTriggeredRef, summary, showPopup, mounted, schedule,
                 completed, openedBy, autoOpened, sessFired>>

\* await checkAllSessionsComplete() returns in a run of
\* triggerOnAllSessionsComplete; the run goes on to fetchDaySummary or ends
CheckReturns ==
  /\ runs.check > 0
  /\ runs' = [runs EXCEPT
                !.check = @ - 1,
                !.fetch = @ + (IF checkAllSessionsComplete THEN 1 ELSE 0)]
  /\ lastOp' = "CheckReturns"
  /\ UNCHANGED nonHookVars
  /\ UNCHANGED <<today, hour, lastSummaryDate, sessionsCompleteShown,
                 hasTriggeredRef, summary, showPopup, mounted, schedule,
                 completed, timers, openedBy, autoOpened, sessFired>>

\* mutant: the run looks at the marker again after its awaits
triggerShows_Recheck ==
  IF sessionsCompleteShown = today
    THEN UNCHANGED <<hasTriggeredRef, summary, showPopup, openedBy,
                     autoOpened, sessionsCompleteShown, sessFired>>
    ELSE /\ hasTriggeredRef' = TRUE
         /\ Show("sessions")
         /\ sessionsCompleteShown' = today
         /\ sessFired' = Bump(sessFired)

\* what a run of triggerOnAllSessionsComplete does when fetchDaySummary has
\* returned a summary
triggerShows ==
  /\ hasTriggeredRef' = TRUE
  /\ Show("sessions")
  /\ sessionsCompleteShown' = today
  /\ sessFired' = Bump(sessFired)

\* await fetchDaySummary() returns in a run of triggerOnAllSessionsComplete:
\* a summary (ok), or null when the fetch threw
TriggerFetchReturns ==
  /\ runs.fetch > 0
  /\ runs' = [runs EXCEPT !.fetch = @ - 1]
  /\ \E ok \in BOOLEAN :
       IF ok
         THEN /\ triggerShows
              /\ lastOp' = "TriggerShows"
         ELSE /\ lastOp' = "TriggerFetchFailed"
              /\ UNCHANGED <<hasTriggeredRef, summary, showPopup,
                             sessionsCompleteShown, openedBy, autoOpened,
                             sessFired>>
  /\ UNCHANGED nonHookVars
  /\ UNCHANGED <<today, hour, lastSummaryDate, mounted, schedule, completed,
                 timers>>

\* what a run of checkAndShowSummary does when fetchDaySummary has returned
\* a summary
checkShows ==
  /\ Show("time")
  /\ UNCHANGED <<hasTriggeredRef, lastSummaryDate, sessionsCompleteShown>>

\* await fetchDaySummary() returns in a run of checkAndShowSummary
CheckFetchReturns ==
  /\ runs.time > 0
  /\ runs' = [runs EXCEPT !.time = @ - 1]
  /\ \E ok \in BOOLEAN :
       IF ok
         THEN /\ checkShows
              /\ lastOp' = "CheckShows"
         ELSE /\ lastOp' = "CheckFetchFailed"
              /\ UNCHANGED <<hasTriggeredRef, summary, showPopup,
                             lastSummaryDate, sessionsCompleteShown, openedBy,
                             autoOpened>>
  /\ UNCHANGED nonHookVars
  /\ UNCHANGED <<today, hour, mounted, schedule, completed, timers, sessFired>>

\* the user closes the popup
dismissSummary ==
  /\ showPopup
  /\ lastSummaryDate' = today
  /\ sessionsCompleteShown' = today
  /\ showPopup' = FALSE
  /\ hasTriggeredRef' = TRUE
  /\ openedBy' = "none"
  /\ lastOp' = "dismissSummary"
  /\ UNCHANGED nonHookVars
  /\ UNCHANGED <<today, hour, summary, mounted, schedule, completed, timers,
                 runs, autoOpened, sessFired>>

\* the local clock passes or leaves the end-of-day hour
ClockHour ==
  /\ \E h \in Hours \ {hour} : hour' = h
  /\ lastOp' = "ClockHour"
  /\ UNCHANGED nonHookVars
  /\ UNCHANGED <<today, lastSummaryDate, sessionsCompleteShown,
                 hasTriggeredRef, summary, showPopup, mounted, schedule,
                 completed, timers, runs, openedBy, autoOpened, sessFired>>

\* the date changes: no completion record is of the new day yet, and the
\* active schedule plans what it plans for the new weekday
NewDay ==
  /\ today < MaxDay
  /\ InFlight(runs) = 0
  /\ manualRuns = 0
  /\ timers = 0
  /\ today' = today + 1
  /\ completed' = 0
  /\ schedule' \in (IF schedule = -1 THEN {-1} ELSE 0..MaxPlanned)
  /\ autoOpened' = 0
  /\ sessFired' = 0
  /\ lastOp' = "NewDay"
  /\ UNCHANGED nonHookVars
  /\ UNCHANGED <<hour, lastSummaryDate, sessionsCompleteShown,
                 hasTriggeredRef, summary, showPopup, mounted, timers, runs,
                 openedBy>>

\* the user activates, replaces or deactivates the schedule
ScheduleChange ==
  /\ \E p \in (-1..MaxPlanned) \ {schedule} : schedule' = p
  /\ lastOp' = "ScheduleChange"
  /\ UNCHANGED nonHookVars
  /\ UNCHANGED <<today, hour, lastSummaryDate, sessionsCompleteShown,
                 hasTriggeredRef, summary, showPopup, mounted, completed,
                 timers, runs, openedBy, autoOpened, sessFired>>

\* no call has been made yet
NoResult == [state |-> "none", message |-> <<>>, closingLine |-> "none"]

\* state and closing line of a result
Outcome(r) == [state |-> r.state, closingLine |-> r.closingLine]

InitMsg ==
  /\ data \in Features
  /\ result = NoResult
  /\ first = Outcome(NoResult)
  /\ HookInit
  /\ hour = END_OF_DAY_HOUR
  /\ schedule = -1
  /\ ScoresIdle
  /\ StatsIdle
  /\ SessionIdle
  /\ PagesIdle

\* fetchDaySummary's call, line 163: the tuple is classified
Evaluate ==
  /\ result' = generateMessage(data)
  /\ first' = IF result = NoResult THEN Outcome(result') ELSE first
  /\ UNCHANGED <<data, hookVars, manualVars, scoreVars, statsVars,
                 sessionVars, pageVars>>

\* a later call is made on a tuple that differs in one field
NewInput ==
  /\ result # NoResult
  /\ \E f \in DOMAIN FieldValues :
       \E v \in FieldValues[f] \ {data[f]} : data' = [data EXCEPT ![f] = v]
  /\ result' = generateMessage(data')
  /\ UNCHANGED <<first, hookVars, manualVars, scoreVars, statsVars,
                 sessionVars, pageVars>>

NextMsg == Evaluate \/ NewInput

SpecMsg == InitMsg /\ [][NextMsg]_vars

(***************************************************************************)
(* Spec: the trigger wrapper.                                              *)
(***************************************************************************)
\* the tuple fetchDaySummary computes on a day without rows
DefaultFeatures ==
  [studyHours |-> 0, goalHours |-> 0, completedSessions |-> 0,
   totalSessions |-> 0, dominantEmotion |-> "null",
   avgFocus |-> FOCUS_THRESHOLD * LevelScale - 1,
   avgStress |-> STRESS_THRESHOLD * LevelScale - 1, emotionCount |-> 0]

\* the trigger wrapper as constructed, before any of its steps
HookIdle == HookInit /\ hour = END_OF_DAY_HOUR /\ schedule = -1

\* generateMessage has not been called
MsgIdle ==
  /\ data = DefaultFeatures
  /\ result = NoResult
  /\ first = Outcome(NoResult)

Init ==
  /\ HookInit
  /\ data = DefaultFeatures
  /\ result = NoResult
  /\ first = Outcome(NoResult)
  /\ ScoresIdle
  /\ StatsIdle
  /\ SessionIdle
  /\ PagesIdle

Next ==
  \/ Mount
  \/ Unmount
  \/ IntervalTick
  \/ CompletionEvent
  \/ DebounceFires
  \/ CheckReturns
  \/ TriggerFetchReturns
  \/ CheckFetchReturns
  \/ dismissSummary
  \/ ClockHour
  \/ NewDay
  \/ ScheduleChange

Spec == Init /\ [][Next]_vars

(***************************************************************************)
(* SpecManual: the trigger wrapper with a caller of showSummaryNow.  No     *)
(* component of the repository calls showSummaryNow; the hook returns it.  *)
(***************************************************************************)
\* bound of the runs of showSummaryNow in flight
MaxManual == 1

\* showSummaryNow is called: the run is suspended at await fetchDaySummary()
showSummaryNow ==
  /\ manualRuns < MaxManual
  /\ manualRuns' = manualRuns + 1
  /\ lastOp' = "ShowSummaryNow"
  /\ UNCHANGED nonManualVars
  /\ UNCHANGED <<today, hour, lastSummaryDate, sessionsCompleteShown,
                 hasTriggeredRef, summary, showPopup, mounted, schedule,
                 completed, timers, runs, openedBy, autoOpened, sessFired>>

\* a variant of manualShows that honours the 'shown today' marker
manualShows_Guarded ==
  IF lastSummaryDate = today
    THEN UNCHANGED <<summary, showPopup, openedBy, lastSummaryDate,
                     sessionsCompleteShown, hasTriggeredRef, autoOpened>>
    ELSE /\ summary' = "summary"
         /\ showPopup' = TRUE
         /\ openedBy' = IF showPopup THEN openedBy ELSE "manual"
         /\ UNCHANGED <<lastSummaryDate, sessionsCompleteShown,
                        hasTriggeredRef, autoOpened>>

\* if (summaryData) { setSummary(summaryData); setShowPopup(true); }
manualShows ==
  /\ summary' = "summary"
  /\ showPopup' = TRUE
  /\ openedBy' = IF showPopup THEN openedBy ELSE "manual"
  /\ UNCHANGED <<lastSummaryDate, sessionsCompleteShown, hasTriggeredRef,
                 autoOpened>>

\* fetchDaySummary returns to a run of showSummaryNow: a summary (ok), or
\* null when there is no user or the fetch threw
ManualFetchReturns ==
  /\ manualRuns > 0
  /\ manualRuns' = manualRuns - 1
  /\ \E ok \in BOOLEAN :
       IF ok
         THEN manualShows /\ lastOp' = "ManualShows"
         ELSE /\ lastOp' = "ManualFetchFailed"
              /\ UNCHANGED <<summary, showPopup, openedBy, lastSummaryDate,
                             sessionsCompleteShown, hasTriggeredRef,
                             autoOpened>>
  /\ UNCHANGED nonManualVars
  /\ UNCHANGED <<today, hour, mounted, schedule, completed, timers, runs,
                 sessFired>>

NextManual ==
  \/ Mount
  \/ Unmount
  \/ IntervalTick
  \/ CompletionEvent
  \/ DebounceFires
  \/ CheckReturns
  \/ TriggerFetchReturns
  \/ CheckFetchReturns
  \/ dismissSummary
  \/ ClockHour
  \/ NewDay
  \/ ScheduleChange
  \/ showSummaryNow
  \/ ManualFetchReturns

SpecManual == Init /\ [][NextManual]_vars

(***************************************************************************)
(* SpecScores: the score arithmetic of fetchStats applied to aggregates.   *)
(***************************************************************************)
InitScores ==
  /\ agg \in ScoreInputs
  /\ scores = NoScores
  /\ HookIdle
  /\ MsgIdle
  /\ StatsIdle
  /\ SessionIdle
  /\ PagesIdle

NextScores == ComputeScores

SpecScores == InitScores /\ [][NextScores]_vars

(***************************************************************************)
(* SpecStats: one run of fetchStats over each dataset.                     *)
(***************************************************************************)
InitStats ==
  /\ db \in Datasets
  /\ StatsInit
  /\ HookIdle
  /\ MsgIdle
  /\ ScoresIdle
  /\ SessionIdle
  /\ PagesIdle

NextStats ==
  \/ FetchStatsCall
  \/ EmotionsReturn
  \/ SessionsReturn
  \/ CompletionsReturn
  \/ ScheduleReturns

SpecStats == InitStats /\ [][NextStats]_vars

(***************************************************************************)
(* SpecSession: the useStudySession instances and handleLogout.            *)
(***************************************************************************)
InitSession ==
  /\ SessionInit
  /\ HookIdle
  /\ MsgIdle
  /\ ScoresIdle
  /\ StatsIdle
  /\ PagesIdle

NextSession ==
  \/ MountComponent
  \/ UnmountComponent
  \/ SignIn
  \/ InsertReturns
  \/ handleLogout
  \/ UpdateReturns
  \/ SignOutReturns

SpecSession == InitSession /\ [][NextSession]_vars


(***************************************************************************)
(* Claims about generateMessage (checked under SpecMsg).                   *)
(***************************************************************************)
\* the decision table of the specification, rows 1..8, over exact rationals:
\* completionRate = completedSessions/totalSessions (0 when totalSessions
\* is 0) compared with n/10
TableRateGE(d, n) ==
  (d.totalSessions = 0 /\ n <= 0)
    \/ (d.totalSessions # 0 /\ 10 * d.completedSessions >= n * d.totalSessions)

TableGoalReached(d) ==
  (d.goalHours > 0 /\ 5 * d.studyHours >= 4 * d.goalHours)
    \/ (d.goalHours <= 0 /\ d.studyHours > 0)

TableStress(d) == d.avgStress >= 7 * LevelScale

TableRow(i, d) ==
  CASE i = 1 -> TableStress(d) /\ ~TableRateGE(d, 5)
    [] i = 2 -> TableRateGE(d, 8) /\ TableGoalReached(d)
    [] i = 3 -> TableRateGE(d, 6) /\ d.avgFocus >= 6 * LevelScale
    [] i = 4 -> d.studyHours > 0 /\ ~TableRateGE(d, 5) /\ ~TableStress(d)
    [] i = 5 -> d.studyHours = 0 /\ d.emotionCount > 0
    [] i = 6 -> ~TableRateGE(d, 3) /\ d.goalHours > 0
    [] i = 7 -> d.studyHours > 0 /\ d.emotionCount = 0
    [] OTHER -> TRUE

TableState ==
  <<"stressed", "proud", "motivated", "tired_but_consistent", "recovering",
    "discouraged", "strong_start", "balanced">>

FirstRow(d) == CHOOSE i \in 1..8 : TableRow(i, d) /\ \A j \in 1..(i - 1) : ~TableRow(j, d)

Called == result # NoResult

\* C1: for every feature tuple generateMessage returns the state of the first
\* row, in the order 1..8, of the decision table whose predicate holds
\* (balanced when no earlier row matches).
C1_FirstMatchingRow == Called => result.state = TableState[FirstRow(data)]

\* C1 witness: a call fell through rows 1..5 and was decided by row 6.
C1_Witness == Called /\ FirstRow(data) = 6 /\ result.state = "discouraged"

\* C2: generateMessage yields exactly one of the eight states for every
\* tuple, a call on a tuple yields what the tuple alone determines (state,
\* message and closing line), and two calls that yield the same state yield
\* the same closing line, whatever the tuples were.
C2_OneStateFixedClosing ==
  Called =>
    /\ result.state \in States
    /\ Cardinality({i \in 1..8 : TableState[i] = result.state}) = 1
    /\ result = generateMessage(data)
    /\ (first.state = result.state => first.closingLine = result.closingLine)

\* C2 witness: two calls on different tuples (one with study time, one
\* without) returned the same state.
C2_Witness ==
  /\ Called
  /\ first.state = "stressed"
  /\ result.state = "stressed"
  /\ data.studyHours = 0
  /\ result.message[2] = <<"rest">>

\* C3: whenever completionRate >= 0.8 and goalReached holds the state is
\* 'proud', for every avgStress, avgFocus and emotionCount.
C3_ProudWhenDone ==
  (Called /\ TableRateGE(data, 8) /\ TableGoalReached(data)) => result.state = "proud"

\* C3 witness: a proud result although avgStress is at least 7.
C3_Witness ==
  /\ Called
  /\ TableRateGE(data, 8)
  /\ TableGoalReached(data)
  /\ data.avgStress > 7 * LevelScale
  /\ result.state = "proud"

\* C4: whenever studyHours is 0, emotionCount > 0 and none of rows 1-3 holds,
\* the state is 'recovering'.
C4_RecoveringOnRestDay ==
  (/\ Called
   /\ data.studyHours = 0
   /\ data.emotionCount > 0
   /\ \A i \in 1..3 : ~TableRow(i, data))
    => result.state = "recovering"

\* C4 witness: a rest day with emotion data, a low completion rate and low
\* stress (all of row 4 but its studyHours > 0) is classified recovering.
C4_Witness ==
  /\ Called
  /\ data.studyHours = 0
  /\ data.emotionCount > 0
  /\ ~TableRateGE(data, 5)
  /\ ~TableStress(data)
  /\ data.goalHours > 0
  /\ result.state = "recovering"

\* C5: whenever avgStress >= 7 and completionRate < 0.5 the state is
\* 'stressed', regardless of the other fields.
C5_StressedShortCircuits ==
  (Called /\ TableStress(data) /\ ~TableRateGE(data, 5)) => result.state = "stressed"

\* C5 witness: stressed at exactly avgStress = 7 with the study goal reached,
\* good focus and emotion data.
C5_Witness ==
  /\ Called
  /\ data.avgStress = 7 * LevelScale
  /\ ~TableRateGE(data, 5)
  /\ TableGoalReached(data)
  /\ data.avgFocus >= 6 * LevelScale
  /\ data.emotionCount > 0
  /\ result.state = "stressed"

(***************************************************************************)
(* Claims about the triggers (checked under Spec).                         *)
(***************************************************************************)
\* C6: within one calendar day the two automatic triggers together open the
\* popup at most once, for any interleaving of mount, timer ticks,
\* completion events, pending fetches and dismissals.
C6_AtMostOncePerDay == autoOpened <= 1

\* C7: once dismissSummary has run on a day (it alone stores today's date
\* under SUMMARY_STORAGE_KEY), no automatic trigger has the popup open again
\* on that day, runs that were awaiting their fetch at the dismissal included.
C7_ClosedAfterDismissal ==
  lastSummaryDate = today => ~(showPopup /\ openedBy \in {"sessions", "time"})

\* C8: a run of triggerOnAllSessionsComplete that passed its guards and whose
\* fetch returned a summary shows the popup and writes the marker without
\* looking at the guards again, so that runs started before the first write
\* each fire: two firings of the completion trigger on one day are reachable.
C8_RunPastGuardsFires ==
  lastOp = "TriggerShows" =>
    /\ showPopup
    /\ summary = "summary"
    /\ hasTriggeredRef
    /\ sessionsCompleteShown = today
    /\ sessFired >= 1

\* C8 witness: the completion trigger has fired twice on one day, the second
\* time by a run of the realtime callback after the marker was written.
C8_Witness ==
  /\ lastOp = "TriggerShows"
  /\ sessFired = 2
  /\ showPopup
  /\ sessionsCompleteShown = today

\* today's summary has been neither shown by a trigger nor dismissed
NotShownToday ==
  /\ autoOpened = 0
  /\ ~showPopup
  /\ sessionsCompleteShown # today
  /\ lastSummaryDate # today

\* C9: on any day whose summary has not yet been shown, a run of
\* triggerOnAllSessionsComplete (at mount or after the debounce of a
\* completion-record change) shows the popup if and only if an active
\* schedule exists, plans at least one session for today and today's
\* completed records of it are at least the planned sessions; also on later
\* days while the hook stays mounted.  Step by step: a run called when the
\* condition holds gets to its check, the check sends a run on to the fetch
\* exactly under that condition, and a fetched summary is shown.
C9_RunShowsIffAllComplete ==
  [][/\ (/\ lastOp' = "DebounceFires"
         /\ timers' = timers - 1
         /\ NotShownToday
         /\ schedule >= 1
         /\ completed >= schedule)
          => runs'.check = runs.check + 1
     /\ (lastOp' = "Mount" /\ mounted' /\ ~mounted /\ NotShownToday)
          => runs'.check = runs.check + 1
     /\ (lastOp' = "CheckReturns" /\ runs'.check = runs.check - 1)
          => (runs'.fetch = runs.fetch + 1
                <=> (schedule >= 1 /\ completed >= schedule))
     /\ lastOp' = "TriggerShows" => (showPopup' /\ summary' = "summary")
    ]_vars

\* C10: checkAndShowSummary, called at mount and by the interval, returns
\* without fetching when the local hour is below 20 and when the stored
\* last-summary date is today's date, leaving summary, showPopup and the
\* stored markers unchanged.
C10_TimeTriggerGuards ==
  [][(/\ lastOp' \in {"Mount", "IntervalTick"}
      /\ (hour < 20 \/ lastSummaryDate = today))
       => /\ runs'.time = runs.time
          /\ UNCHANGED <<summary, showPopup, lastSummaryDate, sessionsCompleteShown>>
    ]_vars

\* C10 witness: the interval has fired after 20:00 on a day whose summary was
\* dismissed, and no run was started.
C10_Witness ==
  /\ lastOp = "IntervalTick"
  /\ hour >= 20
  /\ lastSummaryDate = today
  /\ InFlight(runs) = 0
  /\ ~showPopup

(***************************************************************************)
(* Claims about showSummaryNow, checked under SpecManual.                  *)
(***************************************************************************)
\* C11: a run of showSummaryNow whose fetch returns a summary shows the
\* popup (summary set, showPopup true) whatever the two stored 'shown today'
\* markers and hasTriggeredRef say, and leaves those three unchanged.
C11_ManualAlwaysShows ==
  [][(manualRuns' < manualRuns /\ lastOp' = "ManualShows")
       => /\ showPopup' /\ summary' = "summary"
          /\ UNCHANGED <<lastSummaryDate, sessionsCompleteShown,
                         hasTriggeredRef>>]_vars

\* showSummaryNow showed the popup on a day both markers and the flag
\* already record
C11_Witness ==
  /\ lastOp = "ManualShows"
  /\ showPopup /\ openedBy = "manual"
  /\ lastSummaryDate = today
  /\ sessionsCompleteShown = today
  /\ hasTriggeredRef

(***************************************************************************)
(* Claims about the score arithmetic, checked under SpecScores.            *)
(***************************************************************************)
Computed == scores # NoScores

\* ten times 0.4*avgFocusLevel + 0.3*(100 - avgStressLevel)
\*           + min(5*emotionCount, 30)
WellnessTenths ==
  4 * agg.avgFocusLevel + 3 * (100 - agg.avgStressLevel)
    + 10 * (IF 5 * agg.emotionCount < 30 THEN 5 * agg.emotionCount ELSE 30)

ClaimHigh == agg.avgStressLevel > 70 \/ agg.totalStudyTime > 90000

ClaimMedium ==
  ~ClaimHigh /\ (agg.avgStressLevel > 50 \/ agg.totalStudyTime > 72000)

\* C13: burnoutRisk is 'High' exactly when avgStressLevel > 70 or
\* totalStudyTime > 90000 seconds, 'Medium' exactly when neither holds and
\* avgStressLevel > 50 or totalStudyTime > 72000 seconds, 'Low' otherwise.
C13_BurnoutRisk ==
  Computed =>
    /\ scores.burnoutRisk = "High" <=> ClaimHigh
    /\ scores.burnoutRisk = "Medium" <=> ClaimMedium
    /\ scores.burnoutRisk = "Low" <=> (~ClaimHigh /\ ~ClaimMedium)

\* 'Medium' by study time alone, at the first second past 20 hours
C13_Witness ==
  /\ Computed
  /\ scores.burnoutRisk = "Medium"
  /\ agg.avgStressLevel = 50
  /\ agg.totalStudyTime = 72001

Finished == outcome # "none"

\* the rows of the trailing week a query saw: none when the query failed
LogsSeen ==
  IF "emotions" \in fetchRun.failed THEN {}
  ELSE {r \in db.emotion_logs : r.created_at >= 1}

SessionsSeen ==
  IF "sessions" \in fetchRun.failed THEN {}
  ELSE {i \in DOMAIN db.study_sessions : db.study_sessions[i].created_at >= 1}

CompletionsSeen ==
  IF "completions" \in fetchRun.failed THEN {}
  ELSE {i \in DOMAIN db.completions : db.completions[i].created_at >= 1}

RECURSIVE FocusSum(_)
FocusSum(rows) ==
  IF rows = {} THEN 0
  ELSE LET r == CHOOSE x \in rows : TRUE
       IN r.focus_level + FocusSum(rows \ {r})

RECURSIVE StressSum(_)
StressSum(rows) ==
  IF rows = {} THEN 0
  ELSE LET r == CHOOSE x \in rows : TRUE
       IN r.stress_level + StressSum(rows \ {r})

\* k is sum / n rounded to an integer, halves up; 0 when n is 0
RoundedMean(k, sum, n) ==
  IF n = 0 THEN k = 0
  ELSE (2 * k - 1) * n <= 2 * sum /\ 2 * sum < (2 * k + 1) * n

FocusMean(k, rows) ==
  LET given == {r \in rows : r.focus_level # NULL}
  IN RoundedMean(k, FocusSum(given), Cardinality(given))

StressMean(k, rows) ==
  LET given == {r \in rows : r.stress_level # NULL}
  IN RoundedMean(k, StressSum(given), Cardinality(given))

\* C14 as stated: a run of fetchStats over an empty weekly dataset ends
\* without throwing and every numeric result is zero, burnoutRisk 'Low'.
C14_EmptyIsAllZero ==
  (Finished /\ LogsSeen = {} /\ SessionsSeen = {} /\ CompletionsSeen = {}
     /\ db.schedule.kind # "malformed")
    => /\ outcome = "success"
       /\ stats.wellnessScore = 0 /\ stats.breakEfficiency = 0
       /\ stats.avgFocusLevel = 0 /\ stats.avgStressLevel = 0
       /\ stats.totalStudyTime = 0 /\ stats.totalBreakTime = 0
       /\ weeklyAnalytics.totalStudyHours = 0
       /\ weeklyAnalytics.completionRate = 0
       /\ weeklyAnalytics.breakVsStudyRatio = 0
       /\ stats.burnoutRisk = "Low"

C17_AveragesSkipNulls ==
  Finished =>
    /\ FocusMean(stats.avgFocusLevel, LogsSeen)
    /\ StressMean(stats.avgStressLevel, LogsSeen)

\* one log with focus 2 and one without a focus level: the average is 2
C17_Witness ==
  /\ Finished
  /\ Cardinality(LogsSeen) = 2
  /\ \E r \in LogsSeen : r.focus_level = NULL
  /\ \E r \in LogsSeen : r.focus_level = 2
  /\ stats.avgFocusLevel = 2

\* C18: weeklyEmotions has exactly seven entries, Sun..Sat in this order;
\* focus and stress of a weekday are the rounded means of that weekday's
\* non-null values (0 without one); mood is the emotion of the weekday's
\* log with the latest created_at, 'neutral' when the weekday has no log.
C18_WeeklyEmotions ==
  Finished =>
    LET we == stats.weeklyEmotions
        names == <<"Sun", "Mon", "Tue", "Wed", "Thu", "Fri", "Sat">>
    IN /\ Len(we) = 7
       /\ \A i \in 1..7 :
            LET ofDay == {r \in LogsSeen : r.day = i - 1}
            IN /\ we[i].day = names[i]
               /\ FocusMean(we[i].focus, ofDay)
               /\ StressMean(we[i].stress, ofDay)
               /\ we[i].mood =
                    IF ofDay = {} THEN "neutral"
                    ELSE (CHOOSE r \in ofDay :
                            \A q \in ofDay : q.created_at <= r.created_at).emotion

\* Wednesday has a 'happy' log and a later 'sad' one: its mood is 'sad'
C18_Witness ==
  /\ Finished
  /\ \E r, q \in LogsSeen :
       /\ r.day = 3 /\ q.day = 3 /\ r.created_at < q.created_at
       /\ r.emotion = "happy" /\ q.emotion = "sad"
  /\ stats.weeklyEmotions[4].mood = "sad"
  /\ stats.weeklyEmotions[1].mood = "neutral"

\* the dataset as a run sees it: the tables of its failed queries are empty
DbSeen ==
  [emotion_logs |-> IF "emotions" \in fetchRun.failed THEN {}
                    ELSE db.emotion_logs,
   study_sessions |-> IF "sessions" \in fetchRun.failed THEN <<>>
                      ELSE db.study_sessions,
   completions |-> IF "completions" \in fetchRun.failed THEN <<>>
                   ELSE db.completions,
   schedule |-> IF "schedule" \in fetchRun.failed THEN NoSchedule
                ELSE db.schedule]

\* C19: when queries of fetchStats fail the run still ends, caught or
\* successful; its results are those of a run without failures over the
\* dataset whose failed tables are empty; and loading is false once the
\* run has ended, on success, after a failed query and after an exception.
C19_FailedFetchIsEmpty ==
  Finished =>
    LET st == StatsOf(QueryEmotions(DbSeen), QueryRecent(DbSeen.study_sessions))
    IN /\ outcome \in {"success", "thrown"}
       /\ loading = FALSE
       /\ stats = st
       /\ outcome = "success" =>
            weeklyAnalytics =
              AnalyticsOf(st, QueryRecent(DbSeen.completions), DbSeen.schedule)

\* the sessions query failed: the study time is 0 though a session of this
\* week has 3 seconds, the logs are averaged as usual, loading is false
C19_Witness ==
  /\ Finished
  /\ fetchRun.failed = {"sessions"}
  /\ \E i \in DOMAIN db.study_sessions :
       /\ db.study_sessions[i].created_at >= 1
       /\ db.study_sessions[i].duration_seconds = 3
  /\ stats.totalStudyTime = 0
  /\ stats.avgFocusLevel = 2
  /\ stats.avgStressLevel = 8
  /\ loading = FALSE

(***************************************************************************)
(* Claims about useStudySession, checked under SpecSession.                *)
(***************************************************************************)
\* C20: at every time at most one study session of the user is open (a row
\* without logout_timestamp), for every sequence of mounts, sign-ins,
\* createSession and endSession runs, the instances of AppSidebar and
\* EmotionAnalyzer included.
C20_AtMostOneOpenSession == Cardinality(OpenRows) <= 1


\* the run of handleLogout is over: nobody is signed in and some row exists
LoggedOut == ~authed /\ logout = "none" /\ sessionRows # <<>>

\* C21: when handleLogout has completed, every study session row of the user
\* has a logout_timestamp and a final duration_seconds, and none is open
C21_ClosedAtLogout ==
  LoggedOut =>
    \A id \in DOMAIN sessionRows :
      /\ sessionRows[id].logout_timestamp # NULL
      /\ sessionRows[id].duration_seconds # NULL


(***************************************************************************)
(* SpecSchedule: ScheduleGenerator's Generate button and the handler of    *)
(* the generate-schedule function, one request at a time.                  *)
(***************************************************************************)
\* bounds of the schedule model
MaxSubjects == 2
MaxClicks == 2
MaxContent == 3

\* the pieces a reply's message content is made of: the two markdown
\* fences the handler strips, a JSON text, any other text
FENCE_JSON == "fence json"
FENCE == "fence"
JSON_TEXT == "{...}"
PROSE == "text"
Tokens == {FENCE_JSON, FENCE, JSON_TEXT, PROSE}

RATE_LIMIT_MESSAGE == "Rate limit exceeded. Please try again in a moment."
CREDITS_MESSAGE == "AI credits exhausted. Please add credits to continue."

\* the statuses the gateway answers with
UpstreamStatuses == {200, 400, 402, 429, 500}

\* response.ok
Ok(status) == status \in 200..299

\* what the awaited fetch gives: it rejects, or a response whose body is
\* not JSON, is JSON without choices, or is a completion that carries a
\* message content
UpstreamReplies ==
  {[kind |-> "thrown", status |-> 0, body |-> "none", content |-> <<>>]}
    \cup [kind : {"response"}, status : {s \in UpstreamStatuses : ~Ok(s)},
          body : {"notjson"}, content : {<<>>}]
    \cup [kind : {"response"}, status : {s \in UpstreamStatuses : Ok(s)},
          body : {"notjson", "nochoices"}, content : {<<>>}]
    \cup [kind : {"response"}, status : {s \in UpstreamStatuses : Ok(s)},
          body : {"completion"}, content : SeqsUpTo(Tokens, MaxContent)]

NoReply == [kind |-> "none", status |-> 0, body |-> "none", content |-> <<>>]

\* the two replace calls: both fences are removed wherever they stand
StripFences(content) ==
  SelectSeq(SelectSeq(content, LAMBDA t : t # FENCE_JSON),
            LAMBDA t : t # FENCE)

\* JSON.parse returns rather than throws
Parses(text) == text = <<JSON_TEXT>>

NoAnswer == [status |-> 0, body |-> "none"]
Preflight == [status |-> 200, body |-> "null"]
Error500 == [status |-> 500, body |-> "error"]

\* the handler from the return of fetch on, with the credits branch missing
answerOf_NoCredits(reply) ==
  IF reply.kind = "thrown" THEN Error500
  ELSE IF ~Ok(reply.status)
    THEN IF reply.status = 429
           THEN [status |-> 429, body |-> RATE_LIMIT_MESSAGE]
           ELSE Error500
  ELSE IF reply.body \in {"notjson", "nochoices"} THEN Error500
  ELSE IF Parses(StripFences(reply.content))
    THEN [status |-> 200, body |-> "schedule"]
    ELSE Error500

\* the handler from the return of fetch on
answerOf(reply) ==
  IF reply.kind = "thrown" THEN Error500
  ELSE IF ~Ok(reply.status)
    THEN IF reply.status = 429
           THEN [status |-> 429, body |-> RATE_LIMIT_MESSAGE]
         ELSE IF reply.status = 402
           THEN [status |-> 402, body |-> CREDITS_MESSAGE]
         ELSE Error500
  ELSE IF reply.body \in {"notjson", "nochoices"} THEN Error500
  ELSE IF Parses(StripFences(reply.content))
    THEN [status |-> 200, body |-> "schedule"]
    ELSE Error500

\* the request bodies: the body invoke sends, a JSON body without subjects,
\* a body that is not JSON
RequestBodies == {"valid", "nosubjects", "malformed"}

IdleFn ==
  [pc |-> "idle", from |-> "none", method |-> "none", body |-> "none",
   key |-> FALSE, upstreamCalls |-> 0, up |-> NoReply, answer |-> NoAnswer]

\* a request as it reaches serve
Request(from, method, body) ==
  [IdleFn EXCEPT !.pc = "received", !.from = from, !.method = method,
                 !.body = body]

\* the page is open with no subject, the function serves nothing
ScheduleInit ==
  /\ gen = [subjects |-> 0, generating |-> FALSE, schedule |-> "null",
            toast |-> "none", clicks |-> 0, invocations |-> 0]
  /\ fn = IdleFn

addSubject ==
  /\ gen.subjects < MaxSubjects
  /\ gen' = [gen EXCEPT !.subjects = @ + 1]
  /\ UNCHANGED fn
  /\ UNCHANGED nonScheduleVars

removeSubject ==
  /\ gen.subjects > 0
  /\ gen' = [gen EXCEPT !.subjects = @ - 1]
  /\ UNCHANGED fn
  /\ UNCHANGED nonScheduleVars

\* the Generate button always takes clicks
GenerateEnabled_Always == TRUE

\* the Generate button takes clicks
GenerateEnabled == ~(gen.subjects = 0 \/ gen.generating)

\* a click on Generate: generateSchedule up to its await
ClickGenerate ==
  /\ GenerateEnabled
  /\ gen.clicks < MaxClicks
  /\ fn.pc = "idle"
  /\ IF gen.subjects = 0
       THEN /\ gen' = [gen EXCEPT !.toast = "No subjects added",
                                  !.clicks = @ + 1]
            /\ fn' = fn
       ELSE /\ gen' = [gen EXCEPT !.generating = TRUE, !.clicks = @ + 1,
                                  !.invocations = @ + 1]
            /\ fn' = Request("client", "POST", "valid")
  /\ UNCHANGED nonScheduleVars

\* another client sends a request, a browser's preflight among them
RequestArrives ==
  /\ fn.pc = "idle"
  /\ \E method \in {"OPTIONS", "POST"} : \E body \in RequestBodies :
       fn' = Request("direct", method, body)
  /\ UNCHANGED gen
  /\ UNCHANGED nonScheduleVars

\* the handler up to its await of fetch
HandlerStarts ==
  /\ fn.pc = "received"
  /\ \E key \in BOOLEAN :
       fn' =
         IF fn.method = "OPTIONS"
           THEN [fn EXCEPT !.pc = "answered", !.key = key,
                           !.answer = Preflight]
         ELSE IF fn.body = "malformed" \/ ~key \/ fn.body = "nosubjects"
           THEN [fn EXCEPT !.pc = "answered", !.key = key,
                           !.answer = Error500]
         ELSE [fn EXCEPT !.pc = "upstream", !.key = key,
                         !.upstreamCalls = @ + 1]
  /\ UNCHANGED gen
  /\ UNCHANGED nonScheduleVars

\* fetch returns and the handler runs to its end
UpstreamReturns ==
  /\ fn.pc = "upstream"
  /\ \E reply \in UpstreamReplies :
       fn' = [fn EXCEPT !.pc = "answered", !.up = reply,
                        !.answer = answerOf(reply)]
  /\ UNCHANGED gen
  /\ UNCHANGED nonScheduleVars

\* invoke returns to generateSchedule: a status outside 2xx is its error
InvokeReturns ==
  /\ fn.pc = "answered"
  /\ fn.from = "client"
  /\ gen' = IF Ok(fn.answer.status)
              THEN [gen EXCEPT !.schedule = fn.answer.body,
                               !.toast = "Schedule generated!",
                               !.generating = FALSE]
              ELSE [gen EXCEPT !.toast = "Generation failed",
                               !.generating = FALSE]
  /\ fn' = IdleFn
  /\ UNCHANGED nonScheduleVars

\* the answer goes back to the other client
AnswerSent ==
  /\ fn.pc = "answered"
  /\ fn.from = "direct"
  /\ fn' = IdleFn
  /\ UNCHANGED gen
  /\ UNCHANGED nonScheduleVars

\* no hook is in use
CoreIdle ==
  /\ HookIdle
  /\ MsgIdle
  /\ ScoresIdle
  /\ StatsIdle
  /\ SessionIdle

InitSchedule ==
  /\ ScheduleInit
  /\ CoreIdle
  /\ CameraIdle
  /\ AnalysisIdle
  /\ PuzzleIdle
  /\ DayIdle
  /\ TrackerIdle
  /\ BreathIdle

NextSchedule ==
  \/ addSubject
  \/ removeSubject
  \/ ClickGenerate
  \/ RequestArrives
  \/ HandlerStarts
  \/ UpstreamReturns
  \/ InvokeReturns
  \/ AnswerSent

SpecSchedule == InitSchedule /\ [][NextSchedule]_vars

\* the handler has answered a POST request
AnsweredPost == fn.pc = "answered" /\ fn.method = "POST"

\* the upstream answered with this status
UpstreamStatus(status) == fn.up.kind = "response" /\ fn.up.status = status

\* the upstream succeeded and its reply, the fences stripped, parsed as JSON
UpstreamParsed ==
  /\ fn.up.kind = "response"
  /\ Ok(fn.up.status)
  /\ fn.up.body = "completion"
  /\ Parses(StripFences(fn.up.content))

\* C22: generate-schedule answers 429 with the rate-limit message exactly
\* when the upstream returned 429, 402 with the credits message exactly when
\* it returned 402, 200 with the parsed schedule exactly when the upstream
\* succeeded and its reply parsed, and 500 with an error for everything else
C22_StatusMapping ==
  AnsweredPost =>
    /\ fn.answer = [status |-> 429, body |-> RATE_LIMIT_MESSAGE]
         <=> UpstreamStatus(429)
    /\ fn.answer = [status |-> 402, body |-> CREDITS_MESSAGE]
         <=> UpstreamStatus(402)
    /\ fn.answer = [status |-> 200, body |-> "schedule"] <=> UpstreamParsed
    /\ fn.answer.status \in {429, 402, 200, 500}
    /\ fn.answer.status = 500 => fn.answer.body = "error"
    /\ fn.answer.status = 429 => UpstreamStatus(429)
    /\ fn.answer.status = 402 => UpstreamStatus(402)
    /\ fn.answer.status = 200 => UpstreamParsed

\* the upstream returned 402 and the handler answered
C22_Witness == AnsweredPost /\ UpstreamStatus(402) /\ fn.answer.status = 402

\* C23: a request makes at most one upstream call, and none when it is a
\* preflight or the API key is missing; every click on Generate has made
\* exactly one invocation of the function
C23_NoRetry ==
  /\ fn.upstreamCalls <= 1
  /\ fn.pc = "answered" /\ (fn.method = "OPTIONS" \/ ~fn.key)
       => fn.upstreamCalls = 0
  /\ gen.invocations = gen.clicks

\* the second click's request was answered after its one upstream call
C23_Witness ==
  /\ gen.clicks = MaxClicks
  /\ fn.pc = "answered"
  /\ fn.from = "client"
  /\ fn.upstreamCalls = 1
  /\ fn.answer.status = 500


(***************************************************************************)
(* SpecCamera: the camera of EmotionAnalyzer.  A run of startCamera is     *)
(* suspended at its awaits; the video element is in the DOM, and           *)
(* videoRef.current is set, exactly while isCameraActive is true.          *)
(***************************************************************************)
\* bounds of the camera model
MaxStarts == 2
MaxImages == 1

\* useState and useRef initial values, no run of startCamera
CameraInit ==
  cam = [isCameraActive |-> FALSE, videoReady |-> FALSE,
         capturedImage |-> FALSE, imageLoading |-> FALSE, streamRef |-> 0,
         streams |-> <<>>, runs |-> <<>>, images |-> 0]

\* stopCamera: the tracks of streamRef.current are stopped
stopCameraOf(c) ==
  [c EXCEPT !.streams = IF c.streamRef # 0
                          THEN [@ EXCEPT ![c.streamRef] = "stopped"]
                          ELSE @,
            !.streamRef = 0,
            !.isCameraActive = FALSE,
            !.videoReady = FALSE]

\* the catch of startCamera, run r: the same clean-up, and the run is over
catchOf(c, r) == [stopCameraOf(c) EXCEPT !.runs[r] = "done"]

\* a click on Use Camera: startCamera up to its await of the 100 ms delay
startCamera ==
  /\ ~cam.isCameraActive /\ ~cam.capturedImage /\ ~cam.imageLoading
  /\ Len(cam.runs) < MaxStarts
  /\ cam' = [cam EXCEPT !.isCameraActive = TRUE, !.videoReady = FALSE,
                        !.runs = Append(@, "delay")]
  /\ UNCHANGED nonCameraVars

\* the delay is over: getUserMedia is called
DelayElapses ==
  /\ \E r \in DOMAIN cam.runs :
       /\ cam.runs[r] = "delay"
       /\ cam' = [cam EXCEPT !.runs[r] = "device"]
  /\ UNCHANGED nonCameraVars

\* getUserMedia settles: a stream goes to streamRef and, when the video
\* element is there, to its srcObject; a rejection goes to the catch
DeviceReturns ==
  /\ \E r \in DOMAIN cam.runs :
       /\ cam.runs[r] = "device"
       /\ \E granted \in BOOLEAN :
            cam' =
              IF granted
                THEN [cam EXCEPT
                        !.streams = Append(@, "live"),
                        !.streamRef = Len(cam.streams) + 1,
                        !.runs[r] = IF cam.isCameraActive
                                      THEN "metadata" ELSE "done"]
                ELSE catchOf(cam, r)
  /\ UNCHANGED nonCameraVars

\* the wait for loadedmetadata settles; videoRef.current.play() is called
\* when it resolved, and throws when the video element is gone
MetadataSettles ==
  /\ \E r \in DOMAIN cam.runs :
       /\ cam.runs[r] = "metadata"
       /\ \E loaded \in BOOLEAN :
            cam' = IF loaded /\ cam.isCameraActive
                     THEN [cam EXCEPT !.runs[r] = "play"]
                     ELSE catchOf(cam, r)
  /\ UNCHANGED nonCameraVars

\* play() settles
PlaySettles ==
  /\ \E r \in DOMAIN cam.runs :
       /\ cam.runs[r] = "play"
       /\ \E played \in BOOLEAN :
            cam' = IF played
                     THEN [cam EXCEPT !.videoReady = TRUE, !.runs[r] = "done"]
                     ELSE catchOf(cam, r)
  /\ UNCHANGED nonCameraVars

\* a click on the X button beside Capture
stopCamera ==
  /\ cam.isCameraActive
  /\ cam' = stopCameraOf(cam)
  /\ UNCHANGED nonCameraVars

\* a click on Capture: the frame is drawn and, when the data URL is long
\* enough, an Image is made to load it
captureImage ==
  /\ cam.isCameraActive /\ cam.videoReady
  /\ \E drawn \in BOOLEAN :
       IF drawn
         THEN /\ cam.images < MaxImages
              /\ cam' = [cam EXCEPT !.imageLoading = TRUE, !.images = @ + 1]
         ELSE cam' = cam
  /\ UNCHANGED nonCameraVars

\* img.onload or img.onerror
ImageSettles ==
  /\ cam.images > 0
  /\ \E loaded \in BOOLEAN :
       cam' = IF loaded
                THEN [stopCameraOf(cam) EXCEPT !.capturedImage = TRUE,
                                               !.imageLoading = FALSE,
                                               !.images = @ - 1]
                ELSE [cam EXCEPT !.imageLoading = FALSE, !.images = @ - 1]
  /\ UNCHANGED nonCameraVars

\* a click on the X of the captured image
clearImage ==
  /\ cam.capturedImage /\ ~cam.imageLoading
  /\ cam' = [cam EXCEPT !.capturedImage = FALSE, !.imageLoading = FALSE]
  /\ UNCHANGED nonCameraVars

InitCamera ==
  /\ CameraInit
  /\ CoreIdle
  /\ ScheduleIdle
  /\ AnalysisIdle
  /\ PuzzleIdle
  /\ DayIdle
  /\ TrackerIdle
  /\ BreathIdle

NextCamera ==
  \/ startCamera
  \/ DelayElapses
  \/ DeviceReturns
  \/ MetadataSettles
  \/ PlaySettles
  \/ stopCamera
  \/ captureImage
  \/ ImageSettles
  \/ clearImage

SpecCamera == InitCamera /\ [][NextCamera]_vars

\* C24: whenever isCameraActive is false, streamRef.current is null and no
\* acquired media stream has a running track
C24_StreamReleased ==
  ~cam.isCameraActive =>
    /\ cam.streamRef = 0
    /\ \A st \in DOMAIN cam.streams : cam.streams[st] = "stopped"


(***************************************************************************)
(* SpecAnalysis: handleAnalyze of EmotionAnalyzer, its 30 s timer and its  *)
(* call of analyze-emotion.                                                *)
(***************************************************************************)
\* bound of the analysis model
MaxAnalyses == 3

\* what the awaited invoke gives: an error, data with a face error, data
\* with another error, data without an emotion, data with an emotion
InvokeReplies == {"error", "face error", "data error", "no emotion", "emotion"}

\* useState and useRef initial values; nothing is typed or captured
AnalysisInit ==
  ana = [text |-> FALSE, capturedImage |-> FALSE, analyzing |-> FALSE,
         result |-> "null", toast |-> "none", controller |-> "null",
         timer |-> "none", call |-> "none", pc |-> "idle", started |-> 0]

\* the user types a text or clears it
setText ==
  /\ ana' = [ana EXCEPT !.text = ~@]
  /\ UNCHANGED nonAnalysisVars

\* an image is captured or uploaded, or cleared
setCapturedImage ==
  /\ ana' = [ana EXCEPT !.capturedImage = ~@]
  /\ UNCHANGED nonAnalysisVars

\* the finally of handleAnalyze
finallyOf(a) ==
  [a EXCEPT !.analyzing = FALSE, !.controller = "null", !.pc = "idle",
            !.call = "none"]

\* clearTimeout(timeoutId)
clearTimeoutOf(a) ==
  [a EXCEPT !.timer = IF @ = "pending" THEN "cleared" ELSE @]

\* a click on Analyze Emotion: handleAnalyze up to its await of invoke
handleAnalyze ==
  /\ ~((~ana.text /\ ~ana.capturedImage) \/ ana.analyzing)
  /\ ana.started < MaxAnalyses
  /\ ana' = [ana EXCEPT !.controller = "live", !.analyzing = TRUE,
                        !.result = "null", !.timer = "pending",
                        !.call = "inflight", !.pc = "invoke",
                        !.started = @ + 1]
  /\ UNCHANGED nonAnalysisVars

\* ANALYSIS_TIMEOUT has passed: the timer's callback aborts the controller,
\* whose signal no request was given
TimeoutFires ==
  /\ ana.timer = "pending"
  /\ ana' = [ana EXCEPT !.timer = "fired", !.controller = "aborted"]
  /\ UNCHANGED nonAnalysisVars

\* invoke returns and handleAnalyze runs to its next await or to its end
AnalyzeReturns ==
  /\ ana.pc = "invoke"
  /\ \E reply \in InvokeReplies :
       ana' =
         IF ana.controller = "aborted"
           THEN finallyOf([clearTimeoutOf(ana) EXCEPT
                             !.toast = "Analysis Timeout"])
         ELSE IF reply \in {"error", "data error", "no emotion"}
           THEN finallyOf([clearTimeoutOf(ana) EXCEPT
                             !.toast = "Analysis Failed"])
         ELSE IF reply = "face error"
           THEN finallyOf([clearTimeoutOf(ana) EXCEPT
                             !.toast = "Face Detection Issue"])
         ELSE [clearTimeoutOf(ana) EXCEPT !.result = "result", !.pc = "log",
                                        !.call = "none"]
  /\ UNCHANGED nonAnalysisVars

\* logEmotion settles: either way the toast is Emotion Analyzed
LogEmotionReturns ==
  /\ ana.pc = "log"
  /\ ana' = finallyOf([ana EXCEPT !.toast = "Emotion Analyzed"])
  /\ UNCHANGED nonAnalysisVars

InitAnalysis ==
  /\ AnalysisInit
  /\ CoreIdle
  /\ ScheduleIdle
  /\ CameraIdle
  /\ PuzzleIdle
  /\ DayIdle
  /\ TrackerIdle
  /\ BreathIdle

NextAnalysis ==
  \/ setText
  \/ setCapturedImage
  \/ handleAnalyze
  \/ TimeoutFires
  \/ AnalyzeReturns
  \/ LogEmotionReturns

SpecAnalysis == InitAnalysis /\ [][NextAnalysis]_vars

\* C25: once the 30 s timer of an analysis has fired, its call of
\* analyze-emotion is no longer in flight, the user has been shown Analysis
\* Timeout and analyzing is false
C25_TimeoutEndsAnalysis ==
  ana.timer = "fired" =>
    /\ ana.call # "inflight"
    /\ ana.toast = "Analysis Timeout"
    /\ ~ana.analyzing


(***************************************************************************)
(* SpecPuzzle: NumberPuzzle.  Positions are 0..8 as in the code, the blank *)
(* (null) is 0.  generatePuzzle's loop is taken one iteration at a time.   *)
(***************************************************************************)
\* the positions of the board and its width
Positions == 0..8
WIDTH == 3
BLANK == 0

\* const arr = [1, 2, 3, 4, 5, 6, 7, 8, null]
Ordered == [p \in Positions |-> IF p = 8 THEN BLANK ELSE p + 1]

\* generatePuzzle has set arr and is about to enter its loop at i = 7
PuzzleStart == [arr |-> Ordered, i |-> 7, moved |-> FALSE]

\* useState(() => generatePuzzle()): the first call is under way
PuzzleInit == tiles = PuzzleStart

\* [arr[a], arr[b]] = [arr[b], arr[a]]
Swap(arr, a, b) == [arr EXCEPT ![a] = arr[b], ![b] = arr[a]]

\* one iteration of the loop, j = Math.floor(Math.random() * (i + 1)); the
\* loop ends after i = 1 and the array is the tiles state
ShuffleStep ==
  /\ tiles.i > 0
  /\ \E j \in 0..tiles.i :
       tiles' = [tiles EXCEPT !.arr = Swap(@, tiles.i, j), !.i = @ - 1]
  /\ UNCHANGED nonPuzzleVars

\* tiles.indexOf(null)
emptyIndexOf(arr) == CHOOSE p \in Positions : arr[p] = BLANK

Abs(x) == IF x < 0 THEN -x ELSE x

canMove(arr, index) ==
  LET emptyIndex == emptyIndexOf(arr)
      row == index \div WIDTH
      emptyRow == emptyIndex \div WIDTH
      col == index % WIDTH
      emptyCol == emptyIndex % WIDTH
  IN  \/ row = emptyRow /\ Abs(col - emptyCol) = 1
      \/ col = emptyCol /\ Abs(row - emptyRow) = 1

\* a click on the tile at index
handleTileClick ==
  /\ tiles.i = 0
  /\ \E index \in Positions :
       /\ canMove(tiles.arr, index)
       /\ tiles' = [tiles EXCEPT
                      !.arr = Swap(@, index, emptyIndexOf(tiles.arr)),
                      !.moved = TRUE]
  /\ UNCHANGED nonPuzzleVars

\* a click on Reset: generatePuzzle is called again
resetGame ==
  /\ tiles.i = 0
  /\ tiles' = PuzzleStart
  /\ UNCHANGED nonPuzzleVars

\* tiles.slice(0, 8).every((t, i) => t === i + 1)
isSolved(arr) == \A p \in 0..7 : arr[p] = p + 1

InitPuzzle ==
  /\ PuzzleInit
  /\ CoreIdle
  /\ ScheduleIdle
  /\ CameraIdle
  /\ AnalysisIdle
  /\ DayIdle
  /\ TrackerIdle
  /\ BreathIdle

NextPuzzle ==
  \/ ShuffleStep
  \/ handleTileClick
  \/ resetGame

SpecPuzzle == InitPuzzle /\ [][NextPuzzle]_vars

\* the pairs of tiles that stand in the wrong order, the blank left out
Inversions(arr) ==
  Cardinality({pq \in Positions \X Positions :
                 /\ pq[1] < pq[2]
                 /\ arr[pq[1]] # BLANK
                 /\ arr[pq[2]] # BLANK
                 /\ arr[pq[1]] > arr[pq[2]]})

InversionsEven(arr) == Inversions(arr) % 2 = 0

\* a move never changes whether the number of inversions is even, and the
\* solved arrangement has none: an arrangement with an odd number of
\* inversions never becomes the solved one by moves
ParityIsKept ==
  [][/\ tiles.i = 0 /\ tiles'.i = 0
        => InversionsEven(tiles'.arr) = InversionsEven(tiles.arr)
     /\ tiles.i = 0 /\ isSolved(tiles.arr) => Inversions(tiles.arr) = 0]_vars

\* C26: every arrangement generatePuzzle returns can be brought to the
\* solved arrangement by moves, for which its number of inversions has to be
\* even
C26_GeneratedIsSolvable ==
  tiles.i = 0 /\ ~tiles.moved => InversionsEven(tiles.arr)


(***************************************************************************)
(* SpecBurnout: a run of fetchStats over the logs the sliders of           *)
(* EmotionAnalyzer can write and study times around the two thresholds.    *)
(***************************************************************************)
\* bounds of the burnout datasets
MaxStressLogs == 2
MaxStudyRows == 2

\* the range of the Stress Level slider
STRESS_MIN == 1
STRESS_MAX == 10

\* emotion_logs of this week, stress_level on the slider's range or null
StressTables ==
  UNION {{{[created_at |-> t, day |-> 3, focus_level |-> 2,
            stress_level |-> f[t], emotion |-> "happy"] : t \in 1..k} :
            f \in [1..k -> (STRESS_MIN..STRESS_MAX) \cup {NULL}]} :
           k \in 0..MaxStressLogs}

\* study_sessions of this week whose durations add up to totals on both
\* sides of the thresholds
StudyTables ==
  SeqsUpTo([created_at : {WEEK_START},
            duration_seconds : {NULL, 1, MEDIUM_STUDY_SECONDS,
                                HIGH_STUDY_SECONDS}],
           MaxStudyRows)

BurnoutDatasets ==
  [emotion_logs : StressTables, study_sessions : StudyTables,
   completions : {<<>>}, schedule : {NoSchedule}]

InitBurnout ==
  /\ db \in BurnoutDatasets
  /\ StatsInit
  /\ HookIdle
  /\ MsgIdle
  /\ ScoresIdle
  /\ SessionIdle
  /\ PagesIdle

NextBurnout ==
  \/ FetchStatsCall
  \/ EmotionsReturn
  \/ SessionsReturn
  \/ CompletionsReturn
  \/ ScheduleReturns

SpecBurnout == InitBurnout /\ [][NextBurnout]_vars

\* the burnout risk the claim gives for a study time
RiskByStudyTime(t) ==
  IF t > 90000 THEN "High"
  ELSE IF t > 72000 THEN "Medium"
  ELSE "Low"

MaxDayCompletions == 2
MaxTodaySessions == 2

\* today's weekday and another one
DayNames == {"Monday", "Tuesday"}

\* the active schedule's id and the id of an earlier schedule
ScheduleIds == {1, 2}

\* schedule_session_completions rows created today
DayCompletionTables ==
  SeqsUpTo([status : {"completed", "skipped"}, schedule_id : ScheduleIds,
            day_name : DayNames],
           MaxDayCompletions)

\* the active schedule: none, or a weekly_plan that has the sessions of a
\* Tuesday and, or not, those of today
DaySchedules ==
  {[kind |-> "none", today |-> -1]}
    \cup [kind : {"plan"}, today : -1..MaxTodaySessions]

DayDatasets == [completions : DayCompletionTables, schedule : DaySchedules]

NoSummary == [completedSessions |-> -1, totalSessions |-> -1]

\* what the steps of fetchDaySummary leave alone
nonDayVars ==
  <<msgVars, hookVars, manualVars, scoreVars, statsVars, sessionVars,
    scheduleVars, cameraVars, analysisVars, puzzleVars, trackerVars,
    breathVars>>

\* todayPlan?.sessions ? todayPlan.sessions.length : 0
totalSessionsOf(sched) ==
  IF sched.kind = "plan" /\ sched.today >= 0 THEN sched.today ELSE 0

\* (completions || []).filter(c => c.status === 'completed').length
completedSessionsOf(completions) ==
  Len(SelectSeq(completions, LAMBDA c : c.status = "completed"))

\* a call of fetchDaySummary returns its summary
fetchDaySummary ==
  /\ daySummary = NoSummary
  /\ daySummary' =
       [completedSessions |-> completedSessionsOf(db.completions),
        totalSessions |-> totalSessionsOf(db.schedule)]
  /\ UNCHANGED nonDayVars

\* the summary is dropped and the hook is ready for the next call
closeSummary ==
  /\ daySummary # NoSummary
  /\ daySummary' = NoSummary
  /\ UNCHANGED nonDayVars

InitDay ==
  /\ db \in DayDatasets
  /\ daySummary = NoSummary
  /\ fetchRun = Absent
  /\ stats = Absent
  /\ weeklyAnalytics = Absent
  /\ loading = Absent
  /\ outcome = Absent
  /\ HookIdle
  /\ MsgIdle
  /\ ScoresIdle
  /\ SessionIdle
  /\ ScheduleIdle
  /\ CameraIdle
  /\ AnalysisIdle
  /\ PuzzleIdle
  /\ TrackerIdle
  /\ BreathIdle

NextDay ==
  \/ fetchDaySummary
  \/ closeSummary

SpecDay == InitDay /\ [][NextDay]_vars

\* C28: in every DaySummary completedSessions is at most totalSessions, so
\* the completion rate completedSessions / totalSessions is at most 1
C28_CompletedWithinTotal ==
  daySummary # NoSummary =>
    daySummary.completedSessions <= daySummary.totalSessions

(***************************************************************************)
(* SpecTracker: StudyTracker's timer, its subject selection and the two    *)
(* logs it keeps in localStorage.                                          *)
(***************************************************************************)
\* bounds of the tracker model: the seconds of one session and of the logs
MaxTime == 2
MaxLogged == 3

\* the options of the select, the empty one apart
Subjects == {"Math", "Physics", "Chemistry", "Biology"}
NO_SUBJECT == ""

\* the weekdays the sessions are stopped on
Weekdays == {"Mon", "Tue"}

\* useState initial values, nothing in localStorage
TrackerInit ==
  tracker = [isTracking |-> FALSE, isPaused |-> FALSE, time |-> 0,
             selectedSubject |-> NO_SUBJECT, weekday |-> "Mon",
             study_logs |-> [w \in Weekdays |-> 0],
             subject_logs |-> [sub \in Subjects |-> 0]]

\* an option of the select is chosen
setSelectedSubject ==
  /\ \E sub \in Subjects \cup {NO_SUBJECT} :
       /\ sub # tracker.selectedSubject
       /\ tracker' = [tracker EXCEPT !.selectedSubject = sub]
  /\ UNCHANGED nonTrackerVars

\* a click on Start Session, disabled while no subject is selected
StartSession ==
  /\ ~tracker.isTracking
  /\ tracker.selectedSubject # NO_SUBJECT
  /\ tracker' = [tracker EXCEPT !.isTracking = TRUE]
  /\ UNCHANGED nonTrackerVars

\* a click on Pause or Resume
PauseResume ==
  /\ tracker.isTracking
  /\ tracker' = [tracker EXCEPT !.isPaused = ~@]
  /\ UNCHANGED nonTrackerVars

\* the interval of the timer effect fires
Tick ==
  /\ tracker.isTracking /\ ~tracker.isPaused
  /\ tracker.time < MaxTime
  /\ tracker' = [tracker EXCEPT !.time = @ + 1]
  /\ UNCHANGED nonTrackerVars

RECURSIVE SumOver(_, _)
SumOver(f, S) ==
  IF S = {} THEN 0
  ELSE LET x == CHOOSE y \in S : TRUE IN f[x] + SumOver(f, S \ {x})

\* a click on Stop: the time goes to today's entry of study_logs and, when
\* a subject is selected, to its entry of subject_logs; the state is reset
StopSession ==
  /\ tracker.isTracking
  /\ SumOver(tracker.study_logs, Weekdays) + tracker.time <= MaxLogged
  /\ tracker' =
       [tracker EXCEPT
          !.study_logs[tracker.weekday] = @ + tracker.time,
          !.subject_logs =
             IF tracker.selectedSubject # NO_SUBJECT
               THEN [@ EXCEPT ![tracker.selectedSubject] = @ + tracker.time]
               ELSE @,
          !.isTracking = FALSE,
          !.isPaused = FALSE,
          !.time = 0,
          !.selectedSubject = NO_SUBJECT]
  /\ UNCHANGED nonTrackerVars

\* a click on Reset Charts: both logs are removed and the page reloads
ResetCharts ==
  /\ tracker' = [tracker EXCEPT
                   !.study_logs = [w \in Weekdays |-> 0],
                   !.subject_logs = [sub \in Subjects |-> 0],
                   !.time = 0,
                   !.selectedSubject = NO_SUBJECT,
                   !.isTracking = FALSE,
                   !.isPaused = FALSE]
  /\ UNCHANGED nonTrackerVars

\* the day ends
Midnight ==
  /\ tracker.weekday = "Mon"
  /\ tracker' = [tracker EXCEPT !.weekday = "Tue"]
  /\ UNCHANGED nonTrackerVars

InitTracker ==
  /\ TrackerInit
  /\ CoreIdle
  /\ ScheduleIdle
  /\ CameraIdle
  /\ AnalysisIdle
  /\ PuzzleIdle
  /\ DayIdle
  /\ BreathIdle

NextTracker ==
  \/ setSelectedSubject
  \/ StartSession
  \/ PauseResume
  \/ Tick
  \/ StopSession
  \/ ResetCharts
  \/ Midnight

SpecTracker == InitTracker /\ [][NextTracker]_vars

\* C29: the seconds in subject_logs add up to the seconds in study_logs,
\* and the timer is 0 while no session is tracked
C29_LogsAgree ==
  /\ SumOver(tracker.subject_logs, Subjects)
       = SumOver(tracker.study_logs, Weekdays)
  /\ ~tracker.isTracking => tracker.time = 0

(***************************************************************************)
(* SpecBreath: BreathingExercise.  Every timer of runCycle waits 4000 ms,  *)
(* so the pending timers fire in the order they were set.                  *)
(***************************************************************************)
\* bound of the pending timers
MaxPending == 3

\* useState("idle"), useState(false), no timer
BreathInit == breath = [isActive |-> FALSE, phase |-> "idle", pending |-> <<>>]

\* a click on Start Breathing: startExercise and the runCycle it calls, up
\* to its first setTimeout
startExercise ==
  /\ ~breath.isActive
  /\ Len(breath.pending) < MaxPending
  /\ breath' = [breath EXCEPT !.isActive = TRUE, !.phase = "inhale",
                              !.pending = Append(@, "hold")]
  /\ UNCHANGED nonBreathVars

\* the phase a timer's callback sets names it; the callbacks of hold and
\* of exhale set the next timer
nextTimerOf(timer) ==
  IF timer = "hold" THEN <<"exhale">>
  ELSE IF timer = "exhale" THEN <<"inhale">>
  ELSE <<>>

\* the oldest pending timer fires
TimerFires ==
  /\ breath.pending # <<>>
  /\ breath' = [breath EXCEPT
                  !.phase = Head(breath.pending),
                  !.pending = Tail(@) \o nextTimerOf(Head(breath.pending))]
  /\ UNCHANGED nonBreathVars

\* a click on Stop
stopExercise ==
  /\ breath.isActive
  /\ breath' = [breath EXCEPT !.isActive = FALSE, !.phase = "idle"]
  /\ UNCHANGED nonBreathVars

InitBreath ==
  /\ BreathInit
  /\ CoreIdle
  /\ ScheduleIdle
  /\ CameraIdle
  /\ AnalysisIdle
  /\ PuzzleIdle
  /\ DayIdle
  /\ TrackerIdle

NextBreath ==
  \/ startExercise
  \/ TimerFires
  \/ stopExercise

SpecBreath == InitBreath /\ [][NextBreath]_vars

\* C30: whenever isActive is false the phase is idle
C30_IdleWhenInactive == ~breath.isActive => breath.phase = "idle"

====
